---- MODULE Spec2Model ----
(***************************************************************************)
(* A model of hedorah's PDF content extraction (src/hedorah/               *)
(* pdf_processor.py): the offset-to-page mapper, the section segmenter,    *)
(* the equation extractor and the figure extractor.  Texts are sequences   *)
(* of one-character strings, so that offsets, slices and regular-          *)
(* expression matches are those of the Python code.                        *)
(***************************************************************************)
EXTENDS Integers, Sequences, FiniteSets, TLC

VARIABLES
    pc,              \* "ready" before the modelled call, "done" after it
    position,        \* _find_page_number: the character offset
    text_len,        \* _find_page_number: len(full_text)
    page_count,      \* len(doc)
    page,            \* _find_page_number: the returned page
    full_text,       \* the document text the extractors read
    section_matches, \* _extract_sections: the sorted (start, name) pairs
    sections,        \* _extract_sections: the returned dict
    equations,       \* _extract_equations: the returned list
    doc,             \* _extract_figures: the pages (text, images)
    max_figures,     \* PDFProcessor.max_figures
    candidates,      \* _extract_figures: the sorted candidate list
    figures,         \* _extract_figures: the returned list
    files,           \* the output directory: file name -> bytes written
    citations,       \* _extract_citations: the returned list
    config,          \* process: the flags of the processor and the output_dir argument
    metadata,        \* process: doc.metadata (title, author)
    openable,        \* process: pymupdf.open(pdf_path) succeeds
    handle,          \* process: the document handle: "none", "open", "closed"
    dir_exists,      \* process: the output directory exists
    content,         \* process: the PDFContent returned
    directory,       \* the files of the directory or inbox: name -> paper
    pdf_files,       \* process_directory: list(directory.glob("*.pdf"))
    results,         \* process_directory: the dict returned
    batch_done,      \* process_directory: the PDFs the loop is through with
    main,            \* VaultWatcher.start: the position of the calling thread
    existing_pdfs,   \* _process_existing_pdfs: list(inbox_path.glob("*.pdf"))
    observer,        \* the watchdog observer: "stopped" or "started"
    event_queue,     \* the observer's queue of creation events
    event_count,     \* the creation events the observer has queued so far
    calls,           \* the on_created invocations that have not returned
    processing,      \* PDFHandler.processing
    processed,       \* the paths passed to process_paper since start was called
    runs,            \* the earlier calls into one output directory: document and figures returned
    notes,           \* process_paper: the notes written to the vault
    answers          \* process_paper: what the model calls and the note writes will do

vars == <<pc, position, text_len, page_count, page, full_text, section_matches,
          sections, equations, doc, max_figures, candidates, figures, files,
          citations, config, metadata, openable, handle, dir_exists, content,
          directory, pdf_files, results, batch_done, main, existing_pdfs,
          observer, event_queue, event_count, calls, processing, processed,
          runs, notes, answers>>

pageVars == <<position, text_len, page>>
secVars == <<section_matches, sections>>
eqVars == <<equations>>
figVars == <<doc, max_figures, candidates, figures, files>>
citVars == <<citations>>

\* The variables of the components that the extractor specifications of one
\* text or one document leave alone.
procVars == <<config, metadata, openable, handle, dir_exists, content>>
batchVars == <<directory, pdf_files, results, batch_done>>
watchVars == <<main, existing_pdfs, observer, event_queue, event_count, calls, processing,
               processed>>
paperVars == <<runs, notes, answers>>
outerVars == <<batchVars, watchVars, paperVars>>
restVars == <<citVars, procVars, outerVars>>

\* ------------------------------------------------------------------ bounds

\* The longest text and the largest page count given to _find_page_number.
MaxTextLen == 18
MaxPageCount == 14

Min(a, b) == IF a <= b THEN a ELSE b
Max(a, b) == IF a >= b THEN a ELSE b

\* --------------------------------------------------- Python float division
\* Python's `/` on ints and floats is IEEE-754 binary64 division, correctly
\* rounded (round half to even).  A 53-bit significand does not fit TLC's
\* integers, so a natural number below 2^54 is kept as <<hi, lo>> with value
\* hi * 2^27 + lo, and a positive double as [m |-> <<hi, lo>>, s |-> s] with
\* value m * 2^(-s) and 2^52 <= m < 2^53.

Limb == 2^27

BigGeq(a, b) == a[1] > b[1] \/ (a[1] = b[1] /\ a[2] >= b[2])

BigSub(a, b) ==
    IF a[2] >= b[2] THEN <<a[1] - b[1], a[2] - b[2]>>
    ELSE <<a[1] - b[1] - 1, a[2] + Limb - b[2]>>

\* 2 * a + bit
BigDouble(a, bit) == <<2 * a[1] + ((2 * a[2] + bit) \div Limb), (2 * a[2] + bit) % Limb>>

RECURSIVE BitLength(_)
BitLength(x) == IF x = 0 THEN 0 ELSE 1 + BitLength(x \div 2)

\* One step of binary long division by d: st.q is the quotient so far with
\* st.n significant bits, st.r the remainder, st.s the number of binary places
\* produced; r2 is the doubled remainder and bit the next quotient bit.
DivStepWith(st, d, r2, bit) ==
    [q |-> BigDouble(st.q, bit),
     r |-> IF bit = 1 THEN BigSub(r2, d) ELSE r2,
     s |-> st.s + 1,
     n |-> IF st.n > 0 \/ bit = 1 THEN st.n + 1 ELSE 0]

\* Nothing changes once 54 significant bits (53 and the rounding bit) are
\* there.
DivStep(st, d) ==
    IF st.n >= 54 THEN st
    ELSE CHOOSE x \in {DivStepWith(st, d, r2, IF BigGeq(r2, d) THEN 1 ELSE 0) :
                         r2 \in {BigDouble(st.r, 0)}} : TRUE

DivStep8(st, d) ==
    CHOOSE x \in
        {DivStep(s7, d) : s7 \in
        {DivStep(s6, d) : s6 \in
        {DivStep(s5, d) : s5 \in
        {DivStep(s4, d) : s4 \in
        {DivStep(s3, d) : s3 \in
        {DivStep(s2, d) : s2 \in
        {DivStep(s1, d) : s1 \in {DivStep(st, d)}}}}}}}} : TRUE

RECURSIVE DivLoop(_, _)
DivLoop(st, d) ==
    IF st.n >= 54 THEN st
    ELSE CHOOSE x \in {DivLoop(s8, d) : s8 \in {DivStep8(st, d)}} : TRUE

\* The integer part of num / d and the remainder, where they fit an integer:
\* the start of the long division.
DivStart(q0, r0) == [q |-> <<0, q0>>, r |-> <<0, r0>>, s |-> 0, n |-> BitLength(q0)]

\* The 54-bit quotient l.q rounded to 53 bits, half to even, the remainder
\* l.r deciding a tie.
RoundQuotient(l) ==
    LET m == <<l.q[1] \div 2, (l.q[2] \div 2) + (l.q[1] % 2) * (Limb \div 2)>>
        up == l.q[2] % 2 = 1 /\ (l.r # <<0, 0>> \/ m[2] % 2 = 1)
        mr == IF ~up THEN m
              ELSE IF m[2] + 1 < Limb THEN <<m[1], m[2] + 1>> ELSE <<m[1] + 1, 0>>
    IN IF mr[1] = 2^26 THEN [m |-> <<2^25, 0>>, s |-> l.s - 2]
       ELSE [m |-> mr, s |-> l.s - 1]

\* num / d correctly rounded, for an int num > 0 and a natural d = <<hi, lo>> > 0.
FloatDiv(num, d) ==
    CHOOSE x \in {RoundQuotient(l) : l \in
                    {DivLoop(IF d[1] = 0 THEN DivStart(num \div d[2], num % d[2])
                             ELSE DivStart(0, num), d)}} : TRUE

\* int(x) of the double m * 2^(-s): truncation.
FloatToInt(m, s) ==
    IF s >= 53 THEN 0
    ELSE IF s >= 27 THEN m[1] \div 2^(s - 27)
    ELSE m[1] * 2^(27 - s) + (m[2] \div 2^s)

\* int(position / avg) for the double avg: position / (m * 2^(-s)) is
\* (position / m) * 2^s, and scaling by a power of two is exact.
IntOfQuotient(pos, avg) ==
    IF pos = 0 THEN 0
    ELSE CHOOSE x \in {FloatToInt(q.m, q.s - avg.s) : q \in {FloatDiv(pos, avg.m)}} : TRUE

\* ------------------------------------------------------- _find_page_number

\* A plausible slip: the page counted from 0.
FindPageNumberZeroBased(n_pages, pos, len) ==
    CHOOSE x \in {Min(IntOfQuotient(pos, avg_chars_per_page), n_pages) :
                     avg_chars_per_page \in {FloatDiv(len, <<0, n_pages>>)}} : TRUE

\* _find_page_number(doc, position, full_text), with n_pages = len(doc) and
\* len = len(full_text).
FindPageNumber(n_pages, pos, len) ==
    CHOOSE x \in {Min(p, n_pages) :
                     p \in {IntOfQuotient(pos, avg_chars_per_page) + 1 :
                               avg_chars_per_page \in {FloatDiv(len, <<0, n_pages>>)}}} : TRUE

\* ------------------------------------------------------ texts and regexes
\* A text is a sequence of one-character strings.  Offsets are Python's
\* (0-based); the helpers below index from 1 as TLA+ sequences do.

WhiteSpace == {" ", "\t", "\n", "\r", "\f"}
Digits == {"0", "1", "2", "3", "4", "5", "6", "7", "8", "9"}

ToLower ==
    ("A" :> "a") @@ ("B" :> "b") @@ ("C" :> "c") @@ ("D" :> "d") @@ ("E" :> "e") @@
    ("F" :> "f") @@ ("G" :> "g") @@ ("H" :> "h") @@ ("I" :> "i") @@ ("J" :> "j") @@
    ("K" :> "k") @@ ("L" :> "l") @@ ("M" :> "m") @@ ("N" :> "n") @@ ("O" :> "o") @@
    ("P" :> "p") @@ ("Q" :> "q") @@ ("R" :> "r") @@ ("S" :> "s") @@ ("T" :> "t") @@
    ("U" :> "u") @@ ("V" :> "v") @@ ("W" :> "w") @@ ("X" :> "x") @@ ("Y" :> "y") @@
    ("Z" :> "z")

\* re.IGNORECASE compares letters by their lower case.
Lower(c) == IF c \in DOMAIN ToLower THEN ToLower[c] ELSE c

\* text[a:b] for 0 <= a and b <= len(text).
Slice(t, a, b) == SubSeq(t, a + 1, b)

SetMin(S) == CHOOSE x \in S : \A y \in S : x <= y
SetMax(S) == CHOOSE x \in S : \A y \in S : x >= y

\* The first index >= i of t whose character is not in S (Len(t) + 1 if none):
\* where a greedy S* or S+ that starts at i stops.
SkipWhile(t, i, S) ==
    SetMin({j \in i..(Len(t) + 1) : j > Len(t) \/ t[j] \notin S})

\* The last index <= i of t whose character is not in S (0 if none).
SkipBack(t, i, S) ==
    SetMax({j \in 0..i : j = 0 \/ t[j] \notin S})

\* str.strip()
Strip(t) == SubSeq(t, SkipWhile(t, 1, WhiteSpace), SkipBack(t, Len(t), WhiteSpace))

\* The literal w, compared case-insensitively, at index i of t.
LiteralAt(t, i, w) ==
    /\ i + Len(w) - 1 <= Len(t)
    /\ \A k \in 1..Len(w) : Lower(t[i + k - 1]) = Lower(w[k])


\* -------------------------------------------------------- _extract_sections

\* section_patterns: r'\n\s*(\d+\.?\s+)?WORD\s*\n', one per heading word, in
\* the order of the list; plural marks the optional s of "Experiments?".
section_patterns == <<
    [word |-> <<"A", "b", "s", "t", "r", "a", "c", "t">>, plural |-> FALSE],
    [word |-> <<"I", "n", "t", "r", "o", "d", "u", "c", "t", "i", "o", "n">>, plural |-> FALSE],
    [word |-> <<"R", "e", "l", "a", "t", "e", "d", " ", "W", "o", "r", "k">>, plural |-> FALSE],
    [word |-> <<"B", "a", "c", "k", "g", "r", "o", "u", "n", "d">>, plural |-> FALSE],
    [word |-> <<"M", "e", "t", "h", "o", "d", "o", "l", "o", "g", "y">>, plural |-> FALSE],
    [word |-> <<"M", "e", "t", "h", "o", "d", "s">>, plural |-> FALSE],
    [word |-> <<"E", "x", "p", "e", "r", "i", "m", "e", "n", "t">>, plural |-> TRUE],
    [word |-> <<"R", "e", "s", "u", "l", "t", "s">>, plural |-> FALSE],
    [word |-> <<"D", "i", "s", "c", "u", "s", "s", "i", "o", "n">>, plural |-> FALSE],
    [word |-> <<"C", "o", "n", "c", "l", "u", "s", "i", "o", "n">>, plural |-> FALSE],
    [word |-> <<"R", "e", "f", "e", "r", "e", "n", "c", "e", "s">>, plural |-> FALSE] >>

\* The index just after the match of a heading pattern that starts at index
\* i, or 0 when the pattern does not match there.  Each quantifier has one
\* way to match: \s*, \d+ and \s+ must take the whole run, because what
\* follows them cannot start with a character of the run.
HeadingMatchEnd(t, i, pat) ==
    IF ~(i <= Len(t) /\ t[i] = "\n") THEN 0
    ELSE LET a == SkipWhile(t, i + 1, WhiteSpace)
             d == SkipWhile(t, a, Digits)
             dot == IF d <= Len(t) /\ t[d] = "." THEN d + 1 ELSE d
             sp == SkipWhile(t, dot, WhiteSpace)
             w == IF d > a /\ sp > dot THEN sp ELSE a
             e0 == w + Len(pat.word)
             e == IF pat.plural /\ e0 <= Len(t) /\ Lower(t[e0]) = "s" THEN e0 + 1 ELSE e0
             z == SkipWhile(t, e, WhiteSpace)
             nls == {k \in e..(z - 1) : t[k] = "\n"}
         IN IF LiteralAt(t, w, pat.word) /\ nls # {} THEN SetMax(nls) + 1 ELSE 0

\* re.finditer(pattern, text, re.IGNORECASE) from index `from` on: the
\* leftmost match, then the search goes on where it ended.  Offsets 0-based.
RECURSIVE HeadingFindIter(_, _, _)
HeadingFindIter(t, from, pat) ==
    LET S == {i \in from..Len(t) : HeadingMatchEnd(t, i, pat) # 0}
    IN IF S = {} THEN <<>>
       ELSE LET i == SetMin(S)
                e == HeadingMatchEnd(t, i, pat)
            IN <<[start |-> i - 1, end |-> e - 1]>> \o HeadingFindIter(t, e, pat)

\* re.sub(r'^\d+\.?\s*', '', name)
StripNumeral(name) ==
    LET d == SkipWhile(name, 1, Digits)
        dot == IF d <= Len(name) /\ name[d] = "." THEN d + 1 ELSE d
    IN IF d > 1 THEN SubSeq(name, SkipWhile(name, dot, WhiteSpace), Len(name))
       ELSE name

\* match.group(0).strip(), cleaned of its numeral
SectionName(t, m) == StripNumeral(Strip(Slice(t, m.start, m.end)))

\* The (start, name) pairs in the order the two loops append them.
RECURSIVE SectionMatchesFrom(_, _)
SectionMatchesFrom(t, p) ==
    IF p > Len(section_patterns) THEN <<>>
    ELSE LET ms == HeadingFindIter(t, 1, section_patterns[p])
         IN [k \in 1..Len(ms) |-> [start |-> ms[k].start, name |-> SectionName(t, ms[k])]]
            \o SectionMatchesFrom(t, p + 1)

\* list.sort(key=start): stable, ascending.
RECURSIVE InsertByStart(_, _)
InsertByStart(sorted, x) ==
    IF sorted = <<>> THEN <<x>>
    ELSE IF sorted[Len(sorted)].start <= x.start THEN Append(sorted, x)
    ELSE Append(InsertByStart(SubSeq(sorted, 1, Len(sorted) - 1), x), sorted[Len(sorted)])

\* A plausible slip: the matches are left in the order the patterns found them.
SortByStartLeftUnsorted(ms) == ms

RECURSIVE SortByStart(_)
SortByStart(ms) ==
    IF ms = <<>> THEN <<>>
    ELSE InsertByStart(SortByStart(SubSeq(ms, 1, Len(ms) - 1)), ms[Len(ms)])

\* sections[name] = value
DictPut(d, k, v) == [x \in DOMAIN d \cup {k} |-> IF x = k THEN v ELSE d[x]]

\* dict.setdefault(k, v)
DictPutIfAbsent(d, k, v) == IF k \in DOMAIN d THEN d ELSE DictPut(d, k, v)

\* A plausible slip: every section runs to the end of the text.
SectionContentToEnd(t, ms, i) == Strip(Slice(t, ms[i].start, Len(t)))

\* The content stored for the i-th sorted match.
SectionContent(t, ms, i) ==
    Strip(Slice(t, ms[i].start, IF i < Len(ms) THEN ms[i + 1].start ELSE Len(t)))

\* A plausible slip: an earlier heading of the same name is kept.
SectionStoreFirstWins(d, t, ms, i) == DictPutIfAbsent(d, ms[i].name, SectionContent(t, ms, i))

\* One round of the loop that fills the dict.
SectionStore(d, t, ms, i) == DictPut(d, ms[i].name, SectionContent(t, ms, i))

RECURSIVE SectionsUpTo(_, _, _)
SectionsUpTo(t, ms, i) ==
    IF i = 0 THEN [k \in {} |-> <<>>]
    ELSE SectionStore(SectionsUpTo(t, ms, i - 1), t, ms, i)

\* _extract_sections(text): the sorted matches and the dict returned.
ExtractSections(t) ==
    CHOOSE r \in {[matches |-> ms, sections |-> SectionsUpTo(t, ms, Len(ms))] :
                     ms \in {SortByStart(SectionMatchesFrom(t, 1))}} : TRUE

\* ------------------------------------------------------------ _get_context

\* The default of the parameter `window`.
ContextWindow == 100

\* A plausible slip: the window is returned as it is cut, not trimmed.
GetContextUntrimmed(t, start, end) ==
    Slice(t, Max(0, start - ContextWindow), Min(Len(t), end + ContextWindow))

\* _get_context(text, start, end)
GetContext(t, start, end) ==
    Strip(Slice(t, Max(0, start - ContextWindow), Min(Len(t), end + ContextWindow)))

\* ------------------------------------------------------- _extract_equations

\* r'\$\$(.*?)\$\$' with re.DOTALL at index i: the index just after the match,
\* or 0.  The lazy group stops at the first "$$" that follows the opening one.
DisplayMatchEnd(t, i) ==
    IF i + 1 <= Len(t) /\ t[i] = "$" /\ t[i + 1] = "$"
    THEN \* the closing delimiters that can follow
         IF \E j \in (i + 2)..(Len(t) - 1) : t[j] = "$" /\ t[j + 1] = "$"
         THEN SetMin({j \in (i + 2)..(Len(t) - 1) : t[j] = "$" /\ t[j + 1] = "$"}) + 2
         ELSE 0
    ELSE 0

\* r'\$(.*?)\$' at index i: `.` does not match a newline, and the lazy group
\* stops at the first "$" that follows.
InlineMatchEnd(t, i) ==
    IF i <= Len(t) /\ t[i] = "$" /\ (\E j \in (i + 1)..Len(t) : t[j] = "$")
    THEN IF \E k \in (i + 1)..(SetMin({j \in (i + 1)..Len(t) : t[j] = "$"}) - 1) : t[k] = "\n"
         THEN 0
         ELSE SetMin({j \in (i + 1)..Len(t) : t[j] = "$"}) + 1
    ELSE 0

\* re.finditer of the display pattern from index `from` on; offsets 0-based.
RECURSIVE DisplayFindIter(_, _)
DisplayFindIter(t, from) ==
    IF \E i \in from..Len(t) : DisplayMatchEnd(t, i) # 0
    THEN CHOOSE r \in {<<[start |-> i - 1, end |-> DisplayMatchEnd(t, i) - 1]>>
                          \o DisplayFindIter(t, DisplayMatchEnd(t, i)) :
                       i \in {SetMin({k \in from..Len(t) : DisplayMatchEnd(t, k) # 0})}} : TRUE
    ELSE <<>>

\* re.finditer of the inline pattern from index `from` on; offsets 0-based.
RECURSIVE InlineFindIter(_, _)
InlineFindIter(t, from) ==
    IF \E i \in from..Len(t) : InlineMatchEnd(t, i) # 0
    THEN CHOOSE r \in {<<[start |-> i - 1, end |-> InlineMatchEnd(t, i) - 1]>>
                          \o InlineFindIter(t, InlineMatchEnd(t, i)) :
                       i \in {SetMin({k \in from..Len(t) : InlineMatchEnd(t, k) # 0})}} : TRUE
    ELSE <<>>

\* A plausible slip: only whole numbers, r'^\d+$'.
IsDollarAmountWholeOnly(latex) ==
    /\ SkipWhile(latex, 1, Digits) > 1
    /\ SkipWhile(latex, 1, Digits) = Len(latex) + 1

\* re.match(r'^\d+(?:\.\d+)?$', latex), for a latex without trailing newline
IsDollarAmount(latex) ==
    /\ SkipWhile(latex, 1, Digits) > 1
    /\ \/ SkipWhile(latex, 1, Digits) = Len(latex) + 1
       \/ /\ latex[SkipWhile(latex, 1, Digits)] = "."
          /\ SkipWhile(latex, SkipWhile(latex, 1, Digits) + 1, Digits)
                 > SkipWhile(latex, 1, Digits) + 1
          /\ SkipWhile(latex, SkipWhile(latex, 1, Digits) + 1, Digits) = Len(latex) + 1

\* Equation(latex=match.group(1).strip(), context=..., page=...) for a match
\* whose delimiters are `delim` characters long.
EquationOf(t, n_pages, m, delim) ==
    [latex |-> Strip(Slice(t, m.start + delim, m.end - delim)),
     context |-> GetContext(t, m.start, m.end),
     page |-> FindPageNumber(n_pages, m.start, Len(t))]

\* The first loop: one Equation per display match.
DisplayEquations(t, n_pages) ==
    CHOOSE r \in {[k \in 1..Len(ms) |-> EquationOf(t, n_pages, ms[k], 2)] :
                      ms \in {DisplayFindIter(t, 1)}} : TRUE

\* The second loop: one Equation per inline match that is no dollar amount.
InlineEquations(t, n_pages) ==
    LET Keep(e) == ~IsDollarAmount(e.latex)
    IN CHOOSE r \in {SelectSeq([k \in 1..Len(ms) |-> EquationOf(t, n_pages, ms[k], 1)], Keep) :
                         ms \in {InlineFindIter(t, 1)}} : TRUE

\* _extract_equations(text, doc)
ExtractEquations(t, n_pages) == DisplayEquations(t, n_pages) \o InlineEquations(t, n_pages)

\* ----------------------------------------------------- _find_figure_caption

FigureWord == <<"F", "i", "g", "u", "r", "e">>
FigWord == <<"F", "i", "g">>

DigitChars == <<"0", "1", "2", "3", "4", "5", "6", "7", "8", "9">>

\* str(n) for n >= 0, as the f-string puts fig_num into the pattern
RECURSIVE Decimal(_)
Decimal(n) ==
    IF n < 10 THEN <<DigitChars[n + 1]>>
    ELSE Decimal(n \div 10) \o <<DigitChars[(n % 10) + 1]>>

\* (?:Figure|Fig\.?) at index i, case-insensitive: the index just after it,
\* or 0.  After "Fig" the optional dot is taken when it is there: what follows
\* the marker (\s*, then a digit) cannot start with a dot.
MarkerEnd(t, i) ==
    IF LiteralAt(t, i, FigureWord) THEN i + Len(FigureWord)
    ELSE IF LiteralAt(t, i, FigWord)
         THEN IF i + Len(FigWord) <= Len(t) /\ t[i + Len(FigWord)] = "."
              THEN i + Len(FigWord) + 1
              ELSE i + Len(FigWord)
    ELSE 0

\* (?:\n\n|\n(?:Figure|Fig\.?)\s*\d+) matches at index p.
IsTerminator(t, p) ==
    /\ p <= Len(t)
    /\ t[p] = "\n"
    /\ \/ p + 1 <= Len(t) /\ t[p + 1] = "\n"
       \/ /\ MarkerEnd(t, p + 1) # 0
          /\ SkipWhile(t, MarkerEnd(t, p + 1), WhiteSpace) <= Len(t)
          /\ t[SkipWhile(t, MarkerEnd(t, p + 1), WhiteSpace)] \in Digits

\* The index just after (?:Figure|Fig\.?)\s*{fig_num} matched at index i, or 0.
NumberedMarkerEnd(t, i, fig_num) ==
    IF MarkerEnd(t, i) # 0
       /\ LiteralAt(t, SkipWhile(t, MarkerEnd(t, i), WhiteSpace), Decimal(fig_num))
    THEN SkipWhile(t, MarkerEnd(t, i), WhiteSpace) + Len(Decimal(fig_num))
    ELSE 0

\* The match of the caption pattern whose [:\s]+ starts at index r0:
\* [ok, first, last] with group(1) = t[first..last].  [:\s]+ is greedy and
\* (.*?) lazy: the group starts after the whole run of colons and blanks and
\* ends before the first terminator; only when no terminator follows the run
\* does the run give characters back, and the group is then empty, before the
\* last terminator that starts inside the run.
CaptionAfterMarker(t, r0) ==
    CHOOSE r \in {
        IF \E q \in r1..Len(t) : IsTerminator(t, q)
        THEN [ok |-> r1 > r0, first |-> r1,
              last |-> SetMin({q \in r1..Len(t) : IsTerminator(t, q)}) - 1]
        ELSE [ok |-> \E q \in (r0 + 1)..(r1 - 1) : IsTerminator(t, q),
              first |-> 1, last |-> 0] :
        r1 \in {SkipWhile(t, r0, WhiteSpace \cup {":"})}} : TRUE

\* The caption pattern matches with its marker at index i.
CaptionMatchesAt(t, i, fig_num) ==
    /\ NumberedMarkerEnd(t, i, fig_num) # 0
    /\ CaptionAfterMarker(t, NumberedMarkerEnd(t, i, fig_num)).ok

\* _find_figure_caption(page_text, fig_num): re.search takes the leftmost
\* match; the caption is group(1).strip(), or "" without a match.
FindFigureCaption(page_text, fig_num) ==
    IF \E i \in 1..Len(page_text) : CaptionMatchesAt(page_text, i, fig_num)
    THEN CHOOSE c \in {
             Strip(SubSeq(page_text, g.first, g.last)) :
             g \in {CaptionAfterMarker(page_text,
                        NumberedMarkerEnd(page_text,
                            SetMin({i \in 1..Len(page_text) :
                                        CaptionMatchesAt(page_text, i, fig_num)}),
                            fig_num))}} : TRUE
    ELSE <<>>

\* --------------------------------------------------------- _extract_figures
\* A page is [text, images]; an image is [ok, width, height, ext, bytes],
\* where ok = FALSE stands for an image whose extraction raises (extract_image
\* fails, or the result lacks "image" or "ext") and a missing width or height
\* is 0, as base_image.get(..., 0) has it.

MIN_IMAGE_WIDTH == 200
MIN_IMAGE_HEIGHT == 200

\* The bonus of a captioned candidate.
CaptionBonus == 500000

\* A plausible slip: `and` for `or`, only an image small in both dimensions is
\* skipped.
IsRetainedUnlessBothSmall(img) ==
    /\ img.ok
    /\ ~(img.width < MIN_IMAGE_WIDTH /\ img.height < MIN_IMAGE_HEIGHT)

\* The image passes the try block and the size filter.
IsRetained(img) ==
    /\ img.ok
    /\ ~(img.width < MIN_IMAGE_WIDTH \/ img.height < MIN_IMAGE_HEIGHT)

\* A plausible slip: the bonus is left out.
PriorityScoreAreaOnly(width, height, caption) == width * height

\* priority_score = area + has_caption * 500000
PriorityScore(width, height, caption) ==
    (width * height) + ((IF caption # <<>> THEN 1 ELSE 0) * CaptionBonus)

\* A plausible slip: the caption is looked up with the position of the image
\* among the images of the page that are kept.
CandidateOfKeptPosition(pg, page_num, k) ==
    CHOOSE c \in {
        [image_bytes |-> pg.images[k].bytes,
         image_ext |-> pg.images[k].ext,
         width |-> pg.images[k].width,
         height |-> pg.images[k].height,
         caption |-> caption,
         page |-> page_num,
         priority |-> PriorityScore(pg.images[k].width, pg.images[k].height, caption)] :
        caption \in {FindFigureCaption(pg.text,
                         Cardinality({j \in 1..k : pg.images[j].ok /\ IsRetained(pg.images[j])}))}} : TRUE

\* The dict appended for the image at 1-based index k of page page_num; the
\* caption is looked up with fig_num = img_index + 1 = k.
CandidateOf(pg, page_num, k) ==
    CHOOSE c \in {
        [image_bytes |-> pg.images[k].bytes,
         image_ext |-> pg.images[k].ext,
         width |-> pg.images[k].width,
         height |-> pg.images[k].height,
         caption |-> caption,
         page |-> page_num,
         priority |-> PriorityScore(pg.images[k].width, pg.images[k].height, caption)] :
        caption \in {FindFigureCaption(pg.text, k)}} : TRUE

\* The body of the try block for one image: it raises, it reaches the
\* `continue` of the size filter, or it appends a candidate.
TryImage(img) ==
    IF ~img.ok THEN "raise"
    ELSE IF IsRetained(img) THEN "append"
    ELSE "continue"

\* A plausible slip: no handler, the exception leaves the loop.
ExceptReraise(outcome) == outcome

\* except Exception: continue
ExceptContinue(outcome) == IF outcome = "raise" THEN "continue" ELSE outcome

\* One round of the image loop.
ImageStep(img) == ExceptContinue(TryImage(img))

\* An exception leaves the image loops.
FiguresRaise(d) ==
    \E p \in DOMAIN d : \E k \in DOMAIN d[p].images : ImageStep(d[p].images[k]) = "raise"

\* The candidates of the images 1..k of one page, in image order.
RECURSIVE PageCandidates(_, _, _)
PageCandidates(pg, page_num, k) ==
    IF k = 0 THEN <<>>
    ELSE IF ImageStep(pg.images[k]) = "append"
         THEN Append(PageCandidates(pg, page_num, k - 1), CandidateOf(pg, page_num, k))
         ELSE PageCandidates(pg, page_num, k - 1)

\* The candidates of the pages 1..n, in page order.
RECURSIVE DocCandidates(_, _)
DocCandidates(d, n) ==
    IF n = 0 THEN <<>>
    ELSE DocCandidates(d, n - 1) \o PageCandidates(d[n], n, Len(d[n].images))

\* A plausible slip: an unstable order, x goes before the elements of equal
\* priority.
RECURSIVE InsertByPriorityBeforeEqual(_, _)
InsertByPriorityBeforeEqual(sorted, x) ==
    IF sorted = <<>> THEN <<x>>
    ELSE IF sorted[Len(sorted)].priority > x.priority THEN Append(sorted, x)
    ELSE Append(InsertByPriorityBeforeEqual(SubSeq(sorted, 1, Len(sorted) - 1), x),
                sorted[Len(sorted)])

\* Insertion of x, met after every element of `sorted`, into a list sorted by
\* priority, highest first: x goes behind the elements of equal priority.
RECURSIVE InsertByPriority(_, _)
InsertByPriority(sorted, x) ==
    IF sorted = <<>> THEN <<x>>
    ELSE IF sorted[Len(sorted)].priority >= x.priority THEN Append(sorted, x)
    ELSE Append(InsertByPriority(SubSeq(sorted, 1, Len(sorted) - 1), x),
                sorted[Len(sorted)])

\* candidates.sort(key=priority, reverse=True): stable.
RECURSIVE SortByPriority(_)
SortByPriority(cs) ==
    IF cs = <<>> THEN <<>>
    ELSE InsertByPriority(SortByPriority(SubSeq(cs, 1, Len(cs) - 1)), cs[Len(cs)])

\* candidates[:n], Python's slice: a negative n counts from the end.
Take(cs, n) ==
    IF n >= 0 THEN SubSeq(cs, 1, Min(n, Len(cs)))
    ELSE SubSeq(cs, 1, Max(0, Len(cs) + n))

\* The file name f"figure_{i}.{ext}", kept as the pair of its two parts.
FigureFileName(i, ext) == <<i, ext>>

\* A plausible slip: the figure carries the 0-based index.
FigureOfZeroBased(c, i) ==
    [number |-> i - 1,
     caption |-> c.caption,
     image_path |-> FigureFileName(i, c.image_ext),
     page |-> c.page,
     width |-> c.width,
     height |-> c.height,
     description |-> <<>>]

\* Figure(number=i, caption=..., image_path=..., page=..., width=..., height=...)
FigureOf(c, i) ==
    [number |-> i,
     caption |-> c.caption,
     image_path |-> FigureFileName(i, c.image_ext),
     page |-> c.page,
     width |-> c.width,
     height |-> c.height,
     description |-> <<>>]

\* The files after the first k selected candidates were written.
RECURSIVE FilesAfterSaving(_, _, _)
FilesAfterSaving(fs, selected, k) ==
    IF k = 0 THEN fs
    ELSE DictPut(FilesAfterSaving(fs, selected, k - 1),
                 FigureFileName(k, selected[k].image_ext), selected[k].image_bytes)

\* _extract_figures(doc, output_dir) with the files fs of output_dir: the
\* sorted candidates, the figures returned and the files left.
ExtractFigures(d, n_max, fs) ==
    CHOOSE r \in {
        [candidates |-> cs,
         figures |-> [i \in 1..Len(Take(cs, n_max)) |-> FigureOf(cs[i], i)],
         files |-> FilesAfterSaving(fs, Take(cs, n_max), Len(Take(cs, n_max)))] :
        cs \in {SortByPriority(DocCandidates(d, Len(d)))}} : TRUE

\* ------------------------------------------------------- _extract_citations

UpperCase ==
    {"A", "B", "C", "D", "E", "F", "G", "H", "I", "J", "K", "L", "M",
     "N", "O", "P", "Q", "R", "S", "T", "U", "V", "W", "X", "Y", "Z"}

LowerCase == {ToLower[c] : c \in UpperCase}

\* The literal w stands at index i of t, case-sensitively.
ExactAt(t, i, w) ==
    /\ i >= 1
    /\ i + Len(w) - 1 <= Len(t)
    /\ SubSeq(t, i, i + Len(w) - 1) = w

\* (?:\s+et\s+al\.?)? at index i: the index just after it.  The group is
\* taken when it matches: what follows it, a comma, cannot start the group.
EtAlEnd(t, i) ==
    IF /\ SkipWhile(t, i, WhiteSpace) > i
       /\ ExactAt(t, SkipWhile(t, i, WhiteSpace), <<"e", "t">>)
       /\ SkipWhile(t, SkipWhile(t, i, WhiteSpace) + 2, WhiteSpace)
              > SkipWhile(t, i, WhiteSpace) + 2
       /\ ExactAt(t, SkipWhile(t, SkipWhile(t, i, WhiteSpace) + 2, WhiteSpace), <<"a", "l">>)
    THEN IF ExactAt(t, SkipWhile(t, SkipWhile(t, i, WhiteSpace) + 2, WhiteSpace) + 2, <<".">>)
         THEN SkipWhile(t, SkipWhile(t, i, WhiteSpace) + 2, WhiteSpace) + 3
         ELSE SkipWhile(t, SkipWhile(t, i, WhiteSpace) + 2, WhiteSpace) + 2
    ELSE i

\* ,\s*\d{4}\] at index i: the index just after it, or 0.
YearEnd(t, i) ==
    IF /\ ExactAt(t, i, <<",">>)
       /\ SkipWhile(t, SkipWhile(t, i + 1, WhiteSpace), Digits)
              = SkipWhile(t, i + 1, WhiteSpace) + 4
       /\ ExactAt(t, SkipWhile(t, i + 1, WhiteSpace) + 4, <<"]">>)
    THEN SkipWhile(t, i + 1, WhiteSpace) + 5
    ELSE 0

\* r'\[([A-Z][a-z]+(?:\s+et\s+al\.?)?,\s*\d{4})\]' at index i: the index just
\* after the match, or 0.  [a-z]+ takes the whole run of small letters.
AuthorYearMatchEnd(t, i) ==
    IF /\ i + 2 <= Len(t)
       /\ t[i] = "["
       /\ t[i + 1] \in UpperCase
       /\ t[i + 2] \in LowerCase
    THEN YearEnd(t, EtAlEnd(t, SkipWhile(t, i + 2, LowerCase)))
    ELSE 0

\* r'\[(\d+)\]' at index i: the index just after the match, or 0.
NumericMatchEnd(t, i) ==
    IF /\ i + 1 <= Len(t)
       /\ t[i] = "["
       /\ t[i + 1] \in Digits
       /\ ExactAt(t, SkipWhile(t, i + 1, Digits), <<"]">>)
    THEN SkipWhile(t, i + 1, Digits) + 1
    ELSE 0

\* re.finditer of the author-year pattern from index `from` on; offsets
\* 0-based.
RECURSIVE AuthorYearFindIter(_, _)
AuthorYearFindIter(t, from) ==
    IF \E i \in from..Len(t) : AuthorYearMatchEnd(t, i) # 0
    THEN CHOOSE r \in {<<[start |-> i - 1, end |-> AuthorYearMatchEnd(t, i) - 1]>>
                          \o AuthorYearFindIter(t, AuthorYearMatchEnd(t, i)) :
                       i \in {SetMin({k \in from..Len(t) : AuthorYearMatchEnd(t, k) # 0})}} : TRUE
    ELSE <<>>

\* re.finditer of the numeric pattern from index `from` on; offsets 0-based.
RECURSIVE NumericFindIter(_, _)
NumericFindIter(t, from) ==
    IF \E i \in from..Len(t) : NumericMatchEnd(t, i) # 0
    THEN CHOOSE r \in {<<[start |-> i - 1, end |-> NumericMatchEnd(t, i) - 1]>>
                          \o NumericFindIter(t, NumericMatchEnd(t, i)) :
                       i \in {SetMin({k \in from..Len(t) : NumericMatchEnd(t, k) # 0})}} : TRUE
    ELSE <<>>

\* A plausible slip: the numeric marker loses its brackets like the other.
NumericCitationTextBare(t, m) == Slice(t, m.start + 1, m.end - 1)

\* f"[{match.group(1)}]"
NumericCitationText(t, m) == <<"[">> \o Slice(t, m.start + 1, m.end - 1) \o <<"]">>

\* match.group(1)
AuthorYearCitationText(t, m) == Slice(t, m.start + 1, m.end - 1)

\* Citation(text=..., context=..., page=...)
CitationOf(t, n_pages, m, text) ==
    [text |-> text,
     context |-> GetContext(t, m.start, m.end),
     page |-> FindPageNumber(n_pages, m.start, Len(t))]

\* The first loop: one Citation per [Author, Year] match.
AuthorYearCitations(t, n_pages) ==
    CHOOSE r \in {[k \in 1..Len(ms) |->
                      CitationOf(t, n_pages, ms[k], AuthorYearCitationText(t, ms[k]))] :
                  ms \in {AuthorYearFindIter(t, 1)}} : TRUE

\* The second loop: one Citation per [Number] match.
NumericCitations(t, n_pages) ==
    CHOOSE r \in {[k \in 1..Len(ms) |->
                      CitationOf(t, n_pages, ms[k], NumericCitationText(t, ms[k]))] :
                  ms \in {NumericFindIter(t, 1)}} : TRUE

\* _extract_citations(text, doc)
ExtractCitations(t, n_pages) == AuthorYearCitations(t, n_pages) \o NumericCitations(t, n_pages)

\* -------------------------------------------------------- _extract_metadata

\* str.split(sep) of the text from index `from` on: the parts between the
\* separators, at least one.
RECURSIVE SplitFrom(_, _, _)
SplitFrom(t, from, sep) ==
    IF \E i \in from..Len(t) : t[i] = sep
    THEN CHOOSE r \in {<<SubSeq(t, from, n - 1)>> \o SplitFrom(t, n + 1, sep) :
                       n \in {SetMin({i \in from..Len(t) : t[i] = sep})}} : TRUE
    ELSE <<SubSeq(t, from, Len(t))>>

\* text.split('\n')
SplitLines(t) == SplitFrom(t, 1, "\n")

\* The lines looked at for a title: lines[:10].
TitleLines == 10

\* A title line is longer than this, trimmed.
TitleMinLength == 10

\* A plausible slip: the length test looks at the line as it stands, not at
\* the trimmed line.
TitleFromLinesUntrimmedTest(lines, title) ==
    IF \E k \in 1..Min(TitleLines, Len(lines)) : Len(lines[k]) > TitleMinLength
    THEN Strip(lines[SetMin({k \in 1..Min(TitleLines, Len(lines)) :
                                Len(lines[k]) > TitleMinLength})])
    ELSE title

\* The loop over lines[:10]: the first line, trimmed, that is longer than 10
\* characters; the title is left as it was when there is none.
TitleFromLines(lines, title) ==
    IF \E k \in 1..Min(TitleLines, Len(lines)) : Len(Strip(lines[k])) > TitleMinLength
    THEN Strip(lines[SetMin({k \in 1..Min(TitleLines, Len(lines)) :
                                Len(Strip(lines[k])) > TitleMinLength})])
    ELSE title

\* doc[0] raises IndexError: the metadata has no title and the document has
\* no page.
TitleRaises(d, md) == md.title = <<>> /\ Len(d) = 0

\* The title: the metadata title, or else one taken from the first page.
TitleOf(d, md) ==
    IF md.title # <<>> THEN md.title
    ELSE CHOOSE r \in {TitleFromLines(lines, md.title) :
                       lines \in {SplitLines(d[1].text)}} : TRUE

\* author_match.split(','), each part trimmed.
SplitCommaStripped(a) ==
    CHOOSE r \in {[k \in 1..Len(parts) |-> Strip(parts[k])] :
                  parts \in {SplitFrom(a, 1, ",")}} : TRUE

\* The authors: the parts of the metadata author, none without one.
AuthorsOf(md) == IF md.author # <<>> THEN SplitCommaStripped(md.author) ELSE <<>>

AbstractWord == <<"a", "b", "s", "t", "r", "a", "c", "t">>
IntroductionWord == <<"i", "n", "t", "r", "o", "d", "u", "c", "t", "i", "o", "n">>
KeywordsWord == <<"k", "e", "y", "w", "o", "r", "d", "s">>

\* \n\s*(?:\d+\.?\s+)?(?:Introduction|Keywords) matches at index p.
AbstractTerminatorAt(t, p) ==
    /\ p <= Len(t)
    /\ t[p] = "\n"
    /\ \E w \in {SkipWhile(t, p + 1, WhiteSpace)} :
          \/ LiteralAt(t, w, IntroductionWord)
          \/ LiteralAt(t, w, KeywordsWord)
          \/ \E d \in {SkipWhile(t, w, Digits)} :
                /\ d > w
                /\ \E x \in {IF d <= Len(t) /\ t[d] = "." THEN d + 1 ELSE d} :
                      \E y \in {SkipWhile(t, x, WhiteSpace)} :
                          /\ y > x
                          /\ \/ LiteralAt(t, y, IntroductionWord)
                             \/ LiteralAt(t, y, KeywordsWord)

\* The whitespace after the word "Abstract" that starts at index i holds a
\* newline, and a terminator follows that newline: the pattern matches at i.
AbstractMatchesAt(t, i) ==
    /\ LiteralAt(t, i, AbstractWord)
    /\ \E z \in {SkipWhile(t, i + 8, WhiteSpace)} :
          /\ \E n \in (i + 8)..(z - 1) : t[n] = "\n"
          /\ \E p \in (SetMin({n \in (i + 8)..(z - 1) : t[n] = "\n"}) + 1)..Len(t) :
                 AbstractTerminatorAt(t, p)

\* group(1).strip() of the match at i: \s*\n\s* takes the whole whitespace
\* and the lazy group ends at the first terminator after it; when there is
\* none the match gives whitespace back and the group holds whitespace only.
AbstractGroup(t, i) ==
    CHOOSE r \in {IF \E p \in z..Len(t) : AbstractTerminatorAt(t, p)
                  THEN Strip(SubSeq(t, z, SetMin({p \in z..Len(t) : AbstractTerminatorAt(t, p)}) - 1))
                  ELSE <<>> :
                  z \in {SkipWhile(t, i + 8, WhiteSpace)}} : TRUE

\* re.search(r'Abstract\s*\n\s*(.*?)\n\s*(?:\d+\.?\s+)?(?:Introduction|Keywords)',
\*           text, re.IGNORECASE | re.DOTALL), and '' without a match.
AbstractOf(t) ==
    IF \E i \in 1..Len(t) : AbstractMatchesAt(t, i)
    THEN AbstractGroup(t, SetMin({i \in 1..Len(t) : AbstractMatchesAt(t, i)}))
    ELSE <<>>

\* ------------------------------------------------------------ idle values
\* Each specification runs one component; the variables of the others keep
\* these values.

EmptyDict == [k \in {} |-> <<>>]

IdlePage == position = 0 /\ text_len = 0 /\ page = 0
IdleSections == section_matches = <<>> /\ sections = EmptyDict
IdleEquations == equations = <<>>
IdleFigures ==
    /\ doc = <<>>
    /\ max_figures = 0
    /\ candidates = <<>>
    /\ figures = <<>>
    /\ files = EmptyDict
IdleCitations == citations = <<>>

\* PDFContent with the defaults of its fields.
NoContent ==
    [title |-> <<>>, authors |-> <<>>, abstract |-> <<>>, full_text |-> <<>>,
     sections |-> EmptyDict, figures |-> <<>>, equations |-> <<>>, citations |-> <<>>,
     page_count |-> 0]

IdleProcess ==
    /\ config = [extract_figures |-> FALSE, extract_equations |-> FALSE,
                 extract_citations |-> FALSE, output_dir |-> FALSE]
    /\ metadata = [title |-> <<>>, author |-> <<>>]
    /\ openable = FALSE
    /\ handle = "none"
    /\ dir_exists = FALSE
    /\ content = NoContent
IdleBatch ==
    /\ directory = EmptyDict
    /\ pdf_files = <<>>
    /\ results = EmptyDict
    /\ batch_done = 0

IdleWatch ==
    /\ main = [step |-> 0, at |-> "return", i |-> 0]
    /\ existing_pdfs = <<>>
    /\ observer = "stopped"
    /\ event_queue = <<>>
    /\ event_count = 0
    /\ calls = {}
    /\ processing = {}
    /\ processed = {}

\* Every model call answers, with no figure description, no insight, no
\* connection and no experiment, and every note is written.
NoAnswers ==
    [descriptions |-> [raises |-> FALSE, entries |-> <<>>],
     summary_raises |-> FALSE,
     analysis |-> [raises |-> FALSE, key_insights |-> FALSE, connections |-> FALSE],
     experiments |-> [raises |-> FALSE, count |-> 0],
     skip_experiments |-> FALSE,
     write_fails_at |-> 0]

IdlePaper == runs = <<>> /\ notes = {} /\ answers = NoAnswers

IdleOuter == IdleBatch /\ IdleWatch /\ IdlePaper

IdleRest == IdleCitations /\ IdleProcess /\ IdleOuter

\* ------------------------------------------ specification: the page mapper

InitPage ==
    /\ pc = "ready"
    /\ text_len \in 1..MaxTextLen
    /\ page_count \in 1..MaxPageCount
    /\ position \in 0..text_len
    /\ page = 0
    /\ full_text = <<>>
    /\ IdleSections /\ IdleEquations /\ IdleFigures /\ IdleRest

\* One call of _find_page_number.
FindPage ==
    /\ pc = "ready"
    /\ page' = FindPageNumber(page_count, position, text_len)
    /\ pc' = "done"
    /\ UNCHANGED <<position, text_len, page_count, full_text>>
    /\ UNCHANGED <<secVars, eqVars, figVars, restVars>>

NextPage == FindPage

SpecPage == InitPage /\ [][NextPage]_vars

\* C5 (as stated): offset 0 maps to page 1 and offset len(text)-1 to the last
\* page, for every page count >= 1 and every non-empty text.
C5_FirstAndLastOffset ==
    pc = "done" =>
        /\ (position = 0 => page = 1)
        /\ (position = text_len - 1 => page = page_count)

\* C5 (amended): offset 0 maps to page 1 for every non-empty text, and offset
\* len(text)-1 maps to the last page whenever the text has at least as many
\* characters as the document has pages.
C5_FirstAndLastOffsetLongText ==
    pc = "done" =>
        /\ (position = 0 => page = 1)
        /\ (position = text_len - 1 /\ text_len >= page_count => page = page_count)

\* A last offset, other than 0, of a text spread over several pages.
C5_Witness ==
    /\ pc = "done"
    /\ position = text_len - 1
    /\ position > 0
    /\ page_count >= 2
    /\ text_len >= page_count
    /\ page = page_count

\* C6: the returned page is floor(offset / (len(text) / page_count)) + 1
\* clamped to page_count, for every offset in 0..len(text), and so lies in
\* [1, page_count].
C6_PageFormula ==
    pc = "done" =>
        /\ page = Min(((position * page_count) \div text_len) + 1, page_count)
        /\ page \in 1..page_count

\* ------------------------------------- specification: the section segmenter

\* The longest text, in lines, given to _extract_sections.
MaxLines == 5

\* The lines the texts are made of: blank, two headings, body text, a
\* numbered heading, an indented lower-case heading with a trailing blank.
LinePool == {
    <<>>,
    <<"A", "b", "s", "t", "r", "a", "c", "t">>,
    <<"I", "n", "t", "r", "o", "d", "u", "c", "t", "i", "o", "n">>,
    <<"F", "o", "o", ".">>,
    <<"1", ".", " ", "A", "b", "s", "t", "r", "a", "c", "t">>,
    <<" ", "a", "b", "s", "t", "r", "a", "c", "t", " ">> }

\* "\n".join(lines)
RECURSIVE JoinLines(_)
JoinLines(ls) ==
    IF ls = <<>> THEN <<>>
    ELSE IF Len(ls) = 1 THEN ls[1]
    ELSE ls[1] \o <<"\n">> \o JoinLines(Tail(ls))

\* "Abstract\nWe study X.\nIntroduction\nFoo.\n"
ExampleText == JoinLines(<<
    <<"A", "b", "s", "t", "r", "a", "c", "t">>,
    <<"W", "e", " ", "s", "t", "u", "d", "y", " ", "X", ".">>,
    <<"I", "n", "t", "r", "o", "d", "u", "c", "t", "i", "o", "n">>,
    <<"F", "o", "o", ".">>,
    <<>> >>)

SectionTexts ==
    {JoinLines(ls) : ls \in UNION {[1..n -> LinePool] : n \in 0..MaxLines}}
        \cup {ExampleText}

InitSections ==
    /\ pc = "ready"
    /\ full_text \in SectionTexts
    /\ page_count = 1
    /\ IdlePage /\ IdleSections /\ IdleEquations /\ IdleFigures /\ IdleRest

\* One call of _extract_sections(full_text).
ExtractSectionsCall ==
    /\ pc = "ready"
    /\ \E r \in {ExtractSections(full_text)} :
          /\ section_matches' = r.matches
          /\ sections' = r.sections
    /\ pc' = "done"
    /\ UNCHANGED <<full_text, page_count, pageVars, eqVars, figVars, restVars>>

NextSections == ExtractSectionsCall

SpecSections == InitSections /\ [][NextSections]_vars

\* The name of a heading word as the dict keys have it.
NameAbstract == <<"A", "b", "s", "t", "r", "a", "c", "t">>
NameIntroduction == <<"I", "n", "t", "r", "o", "d", "u", "c", "t", "i", "o", "n">>

\* text[s_i : s_{i+1}], or text[s_n :] for the last match, of the state.
SpanOfMatch(i) ==
    Slice(full_text, section_matches[i].start,
          IF i < Len(section_matches) THEN section_matches[i + 1].start
          ELSE Len(full_text))

\* C7 (as stated): the section map stores for heading i exactly
\* text[s_i : s_{i+1}], and text[s_n : end] for the last heading.
C7_SectionIsExactSlice ==
    pc = "done" =>
        \A i \in 1..Len(section_matches) :
            /\ section_matches[i].name \in DOMAIN sections
            /\ sections[section_matches[i].name] = SpanOfMatch(i)

\* C7 (amended): the matches start at increasing offsets, each at the newline
\* that opens the heading's line, and for every heading i that no later
\* heading shares its name with, the section map stores text[s_i : s_{i+1}]
\* (text[s_n : end] for the last) trimmed of surrounding whitespace.
C7_SectionIsTrimmedSlice ==
    pc = "done" =>
        \A i \in 1..Len(section_matches) :
            /\ full_text[section_matches[i].start + 1] = "\n"
            /\ i < Len(section_matches) =>
                   section_matches[i].start < section_matches[i + 1].start
            /\ (\A j \in (i + 1)..Len(section_matches) :
                    section_matches[j].name # section_matches[i].name)
               => /\ section_matches[i].name \in DOMAIN sections
                  /\ sections[section_matches[i].name] = Strip(SpanOfMatch(i))

\* Two headings of different names, the first followed by body text.
C7_Witness ==
    /\ pc = "done"
    /\ Len(section_matches) = 2
    /\ section_matches[1].name = NameAbstract
    /\ section_matches[2].name = NameIntroduction
    /\ sections[NameAbstract] = Strip(SpanOfMatch(1))
    /\ Len(sections[NameAbstract]) > Len(NameAbstract)
    /\ sections[NameAbstract] # SpanOfMatch(1)

\* C8: for the text "Abstract\nWe study X.\nIntroduction\nFoo.\n" the section
\* map has the keys "Abstract" and "Introduction"; a heading on the first line
\* of the text is recognized like any other.
C8_FirstLineHeading ==
    pc = "done" =>
        /\ full_text = ExampleText =>
               {NameAbstract, NameIntroduction} \subseteq DOMAIN sections
        /\ (Len(full_text) > Len(NameAbstract)
                /\ SubSeq(full_text, 1, Len(NameAbstract) + 1) = NameAbstract \o <<"\n">>)
               => NameAbstract \in DOMAIN sections

\* C10: the section map has one entry per heading name, and its value is the
\* (trimmed) span of the heading of that name with the largest start offset.
C10_LastOccurrenceWins ==
    pc = "done" =>
        /\ DOMAIN sections = {section_matches[i].name : i \in 1..Len(section_matches)}
        /\ \A name \in DOMAIN sections :
               LET last == SetMax({i \in 1..Len(section_matches) :
                                       section_matches[i].name = name})
               IN sections[name] = Strip(SpanOfMatch(last))

\* Two headings of one name with different spans, and a heading of another
\* name between them.
C10_Witness ==
    /\ pc = "done"
    /\ \E i, j \in 1..Len(section_matches) :
           /\ i < j
           /\ section_matches[i].name = section_matches[j].name
           /\ Strip(SpanOfMatch(i)) # Strip(SpanOfMatch(j))
           /\ sections[section_matches[j].name] = Strip(SpanOfMatch(j))
           /\ \E k \in (i + 1)..(j - 1) :
                  /\ section_matches[k].name # section_matches[i].name
                  /\ sections[section_matches[k].name] = Strip(SpanOfMatch(k))

\* The span of the i-th heading found: from its start offset to the start
\* offset of the next heading, or to the end of the text.
SpanStart(i) == section_matches[i].start

SpanEnd(i) ==
    IF i < Len(section_matches) THEN section_matches[i + 1].start ELSE Len(full_text)

\* The headings whose span the section map keeps: the last of each name.
StoredHeadings ==
    {i \in 1..Len(section_matches) :
        \A j \in (i + 1)..Len(section_matches) :
            section_matches[j].name # section_matches[i].name}

\* C11 (as stated): the spans stored in the section map, ordered by start
\* offset, are contiguous: each ends where the next stored span starts, and
\* together they cover the text from the first heading to the end.
C11_StoredSpansContiguous ==
    (pc = "done" /\ section_matches # <<>>) =>
        /\ \A i \in StoredHeadings :
               sections[section_matches[i].name] = Strip(SpanOfMatch(i))
        /\ SpanStart(SetMin(StoredHeadings)) = SpanStart(1)
        /\ SpanEnd(SetMax(StoredHeadings)) = Len(full_text)
        /\ \A i \in StoredHeadings :
               i # SetMax(StoredHeadings) =>
                   SpanEnd(i) = SpanStart(SetMin({j \in StoredHeadings : j > i}))

\* C11 (amended): the spans of the headings found are non-empty and lie one
\* after the other from the first heading to the end of the text; the section
\* map keeps (trimmed) the span of the last heading of each name, so the
\* stored spans never overlap and reach the end of the text, and they are
\* contiguous from the first heading on when no two headings share a name.
C11_SpansContiguousUnlessNamesCollide ==
    (pc = "done" /\ section_matches # <<>>) =>
        /\ \A i \in 1..Len(section_matches) :
               /\ 0 <= SpanStart(i)
               /\ SpanStart(i) < SpanEnd(i)
               /\ SpanEnd(i) <= Len(full_text)
        /\ DOMAIN sections = {section_matches[i].name : i \in StoredHeadings}
        /\ \A i \in StoredHeadings :
               sections[section_matches[i].name] = Strip(SpanOfMatch(i))
        /\ \A i, j \in StoredHeadings : i < j => SpanEnd(i) <= SpanStart(j)
        /\ SpanEnd(SetMax(StoredHeadings)) = Len(full_text)
        /\ Cardinality(StoredHeadings) = Len(section_matches) =>
               /\ SpanStart(SetMin(StoredHeadings)) = SpanStart(1)
               /\ \A i \in StoredHeadings :
                      i # SetMax(StoredHeadings) =>
                          SpanEnd(i) = SpanStart(SetMin({j \in StoredHeadings : j > i}))

\* C11 witness: two headings of different names, both stored, the span of the
\* first ending where the span of the second starts.
C11_Witness ==
    /\ pc = "done"
    /\ Len(section_matches) = 2
    /\ StoredHeadings = {1, 2}
    /\ Cardinality(DOMAIN sections) = 2
    /\ SpanEnd(1) = SpanStart(2)
    /\ SpanEnd(2) = Len(full_text)
    /\ SpanStart(1) > 0


\* ----------------------------------- specification: the equation extractor

\* The longest text, in chunks, given to _extract_equations.
MaxChunks == 5

\* The chunks the texts are made of.
ChunkPool == {
    <<"$">>,
    <<"x", "=", "y">>,
    <<"5">>,
    <<".">>,
    <<" ">>,
    <<"\n">> }

RECURSIVE Concat(_)
Concat(cs) == IF cs = <<>> THEN <<>> ELSE cs[1] \o Concat(Tail(cs))

\* "Use $$x=y$$ here"
ExampleEquationText ==
    <<"U", "s", "e", " ", "$", "$", "x", "=", "y", "$", "$", " ", "h", "e", "r", "e">>

\* "Cost is $5"
CostText == <<"C", "o", "s", "t", " ", "i", "s", " ", "$", "5">>

\* "$5.00$"
PriceText == <<"$", "5", ".", "0", "0", "$">>

\* "$x=y$ is $5$"
MixedText == <<"$", "x", "=", "y", "$", " ", "i", "s", " ", "$", "5", "$">>

EquationTexts ==
    {Concat(cs) : cs \in UNION {[1..n -> ChunkPool] : n \in 0..MaxChunks}}
        \cup {ExampleEquationText, CostText, PriceText, MixedText}

\* full_text joins the page texts with "\n": a text of n pages holds at least
\* n - 1 newlines.  Documents of one or two pages.
PageCountsOf(t) == {1} \cup (IF \E i \in 1..Len(t) : t[i] = "\n" THEN {2} ELSE {})

InitEquations ==
    /\ pc = "ready"
    /\ full_text \in EquationTexts
    /\ page_count \in PageCountsOf(full_text)
    /\ IdlePage /\ IdleSections /\ IdleEquations /\ IdleFigures /\ IdleRest

\* One call of _extract_equations(full_text, doc).
ExtractEquationsCall ==
    /\ pc = "ready"
    /\ equations' = ExtractEquations(full_text, page_count)
    /\ pc' = "done"
    /\ UNCHANGED <<full_text, page_count, pageVars, secVars, figVars, restVars>>

NextEquations == ExtractEquationsCall

SpecEquations == InitEquations /\ [][NextEquations]_vars

\* The number of "$" characters of the text.
DollarCount == Cardinality({i \in 1..Len(full_text) : full_text[i] = "$"})

\* The text holds the display equation $$x=y$$.
HasDisplayXY ==
    \E i \in 1..(Len(full_text) - 6) :
        SubSeq(full_text, i, i + 6) = <<"$", "$", "x", "=", "y", "$", "$">>

\* C4: a text that contains exactly one display equation $$x=y$$ and no other
\* dollar sign yields exactly one Equation, with latex "x=y".
C4_OneDisplayEquation ==
    (pc = "done" /\ HasDisplayXY /\ DollarCount = 4) =>
        /\ Len(equations) = 1
        /\ equations[1].latex = <<"x", "=", "y">>

\* The elements of a set of numbers in ascending order.
RECURSIVE Ascending(_)
Ascending(S) == IF S = {} THEN <<>> ELSE <<SetMin(S)>> \o Ascending(S \ {SetMin(S)})

\* The "$" characters of the text, and the "$" that follows the one at i.
DollarsAt == {i \in 1..Len(full_text) : full_text[i] = "$"}

NextDollar(i) == SetMin({j \in DollarsAt : j > i})

\* No newline between the indices i and j.
SameLine(i, j) == \A k \in i..j : full_text[k] # "\n"

\* The opening delimiters when the "$" of the whole text are paired from left
\* to right, first with second, third with fourth.
OpenersAcrossLines ==
    {i \in DollarsAt :
        /\ Cardinality({j \in DollarsAt : j < i}) % 2 = 0
        /\ \E j \in DollarsAt : j > i}

\* The opening delimiters when the "$" of each line are paired from left to
\* right, a "$" being each "$" character, also one of a "$$".
OpenersPerLine ==
    {i \in DollarsAt :
        /\ Cardinality({j \in DollarsAt : j < i /\ SameLine(j, i)}) % 2 = 0
        /\ \E j \in DollarsAt : j > i /\ SameLine(i, j)}

\* A decimal number: digits, then optionally a point and digits.
IsDecimal(w) ==
    \E n \in 1..Len(w) :
        /\ \A k \in 1..n : w[k] \in {"0", "1", "2", "3", "4", "5", "6", "7", "8", "9"}
        /\ \/ n = Len(w)
           \/ /\ n + 2 <= Len(w)
              /\ w[n + 1] = "."
              /\ \A k \in (n + 2)..Len(w) :
                     w[k] \in {"0", "1", "2", "3", "4", "5", "6", "7", "8", "9"}

\* The trimmed contents of the spans that start at the given opening
\* delimiters, in text order, without the decimal numbers.
RECURSIVE SpansKept(_)
SpansKept(openers) ==
    IF openers = <<>> THEN <<>>
    ELSE (IF IsDecimal(Strip(SubSeq(full_text, openers[1] + 1, NextDollar(openers[1]) - 1)))
          THEN <<>>
          ELSE <<Strip(SubSeq(full_text, openers[1] + 1, NextDollar(openers[1]) - 1))>>)
         \o SpansKept(Tail(openers))

\* The latex of the equations of the inline pass: those after the equations
\* of the display pass.
InlineLatex ==
    [k \in 1..(Len(equations) - Len(DisplayFindIter(full_text, 1))) |->
        equations[Len(DisplayFindIter(full_text, 1)) + k].latex]

\* The texts "Cost is $5", "$5$" and "$5.00$" yield no equation.
AmountsYieldNothing ==
    full_text \in {CostText, PriceText, <<"$", "5", "$">>} => equations = <<>>

MaxPages == 2
MaxImages == 2
MaxFigures == 2

\* The embedded images: two of equal area, one exactly at the size limit, one
\* just below it in height, one without a width (read as 0), one that cannot
\* be extracted.
ImagePool == {
    [ok |-> TRUE, width |-> 300, height |-> 300, ext |-> "png", bytes |-> "square"],
    [ok |-> TRUE, width |-> 400, height |-> 225, ext |-> "jpeg", bytes |-> "wide"],
    [ok |-> TRUE, width |-> 200, height |-> 200, ext |-> "png", bytes |-> "edge"],
    [ok |-> TRUE, width |-> 300, height |-> 199, ext |-> "png", bytes |-> "flat"],
    [ok |-> TRUE, width |-> 0, height |-> 300, ext |-> "png", bytes |-> "nowidth"],
    [ok |-> FALSE, width |-> 0, height |-> 0, ext |-> "", bytes |-> "broken"] }

\* "Figure 1: bar chart"
CaptionLine ==
    <<"F", "i", "g", "u", "r", "e", " ", "1", ":", " ",
      "b", "a", "r", " ", "c", "h", "a", "r", "t">>

BarChart == <<"b", "a", "r", " ", "c", "h", "a", "r", "t">>

\* "plot"
Plot == <<"p", "l", "o", "t">>

\* "Figure 1: bar chart\nFig. 2: plot\n\n"
TwoCaptions ==
    CaptionLine \o <<"\n", "F", "i", "g", ".", " ", "2", ":", " ">> \o Plot \o <<"\n", "\n">>

\* The page texts: no caption; the caption of figure 1 as the last line; the
\* captions of figures 1 and 2, each followed by its terminator.
PageTextPool == {
    <<>>,
    CaptionLine,
    TwoCaptions }

\* The pages with at most n images. The text of a page without images is never
\* read by _extract_figures: such pages are given the empty text.
PagesUpTo(n) ==
    {[text |-> <<>>, images |-> <<>>]} \cup
    {[text |-> t, images |-> is] :
        t \in PageTextPool,
        is \in UNION {[1..k -> ImagePool] : k \in 1..n}}

\* The documents of n pages with at most `budget` images.
RECURSIVE DocumentsOf(_, _)
DocumentsOf(n, budget) ==
    IF n = 0 THEN {<<>>}
    ELSE UNION {{<<pg>> \o rest : rest \in DocumentsOf(n - 1, budget - Len(pg.images))} :
                   pg \in PagesUpTo(budget)}

Documents == UNION {DocumentsOf(n, MaxImages) : n \in 1..MaxPages}

InitFigures ==
    /\ pc = "ready"
    /\ doc \in Documents
    /\ page_count = Len(doc)
    /\ max_figures \in (-1)..MaxFigures
    /\ candidates = <<>>
    /\ figures = <<>>
    /\ files = EmptyDict
    /\ full_text = <<>>
    /\ IdlePage /\ IdleSections /\ IdleEquations /\ IdleRest

\* One call of _extract_figures(doc, output_dir).
ExtractFiguresCall ==
    /\ pc = "ready"
    /\ IF FiguresRaise(doc)
       THEN /\ pc' = "raised"
            /\ UNCHANGED <<candidates, figures, files>>
       ELSE /\ pc' = "done"
            /\ \E r \in {ExtractFigures(doc, max_figures, files)} :
                  /\ candidates' = r.candidates
                  /\ figures' = r.figures
                  /\ files' = r.files
    /\ UNCHANGED <<doc, max_figures, full_text, page_count, pageVars, secVars, eqVars, restVars>>

NextFigures == ExtractFiguresCall

SpecFigures == InitFigures /\ [][NextFigures]_vars

\* The area of a figure or candidate, and the score the claims give it.
AreaOf(f) == f.width * f.height

ClaimedPriority(f) == AreaOf(f) + (IF f.caption # <<>> THEN 500000 ELSE 0)

\* The embedded images of the document that qualify: extractable, width >= 200
\* and height >= 200.
QualifyingImages ==
    {pk \in UNION {{<<p, k>> : k \in DOMAIN doc[p].images} : p \in DOMAIN doc} :
        /\ doc[pk[1]].images[pk[2]].ok
        /\ doc[pk[1]].images[pk[2]].width >= 200
        /\ doc[pk[1]].images[pk[2]].height >= 200}

\* C1: for every document and every configured max_figures, the list returned
\* has length <= max_figures and <= the number of embedded images with
\* width >= 200 and height >= 200.
C1_AtMostMaxFigures ==
    pc = "done" =>
        /\ Len(figures) <= max_figures
        /\ Len(figures) <= Cardinality(QualifyingImages)

\* C2: the figures returned carry the numbers 1..k in list order, whatever the
\* index of their source image, and the file figure_<n>.<ext> each image_path
\* names exists after the extraction, holding that figure's image.
C2_NumberedAndSaved ==
    pc = "done" =>
        \A i \in DOMAIN figures :
            /\ figures[i].number = i
            /\ figures[i].image_path = <<figures[i].number, candidates[i].image_ext>>
            /\ figures[i].image_path \in DOMAIN files
            /\ files[figures[i].image_path] = candidates[i].image_bytes

\* C2 witness: two figures were returned, and number 1 went to the image of
\* page 2 rather than to the first image of the document.
C2_Witness ==
    /\ pc = "done"
    /\ Len(figures) = 2
    /\ figures[1].number = 1 /\ figures[1].page = 2
    /\ figures[2].number = 2 /\ figures[2].page = 1
    /\ Cardinality(DOMAIN files) = 2

\* C3: the figures are ordered by priority descending, priority being
\* width*height + 500000 with a non-empty caption and width*height without;
\* of two candidates of equal area the captioned one is ranked, and selected,
\* before the uncaptioned one.
C3_PriorityOrder ==
    pc = "done" =>
        /\ \A i, j \in DOMAIN figures :
              i < j => ClaimedPriority(figures[i]) >= ClaimedPriority(figures[j])
        /\ \A i, j \in DOMAIN candidates :
              (/\ AreaOf(candidates[i]) = AreaOf(candidates[j])
               /\ candidates[i].caption # <<>>
               /\ candidates[j].caption = <<>>)
              => /\ ClaimedPriority(candidates[i]) > ClaimedPriority(candidates[j])
                 /\ i < j
                 /\ (j \in DOMAIN figures => i \in DOMAIN figures)
        /\ \A i \in DOMAIN figures :
              /\ figures[i].caption = candidates[i].caption
              /\ figures[i].page = candidates[i].page
              /\ AreaOf(figures[i]) = AreaOf(candidates[i])

\* C3 witness: an uncaptioned image on page 1 and a captioned image of equal
\* area on page 2 were both returned, the captioned one first.
C3_Witness ==
    /\ pc = "done"
    /\ Len(figures) = 2
    /\ AreaOf(figures[1]) = AreaOf(figures[2])
    /\ figures[1].caption # <<>> /\ figures[1].page = 2
    /\ figures[2].caption = <<>> /\ figures[2].page = 1

\* The text t contains the text w.
Contains(t, w) == \E i \in 1..(Len(t) + 1) : LiteralAt(t, i, w)

\* C9: a 2-page document with one 300x300 image on page 1, whose page text
\* contains the caption "Figure 1: bar chart", processed with max_figures = 2,
\* yields exactly one Figure: number 1, caption "bar chart", width 300,
\* height 300; also when the caption line is the last line of the page text.
C9_EndToEndFigure ==
    (/\ pc = "done"
     /\ Len(doc) = 2
     /\ Len(doc[1].images) = 1
     /\ doc[1].images[1].ok
     /\ doc[1].images[1].width = 300 /\ doc[1].images[1].height = 300
     /\ Len(doc[2].images) = 0
     /\ Contains(doc[1].text, CaptionLine)
     /\ max_figures = 2)
    => /\ Len(figures) = 1
       /\ figures[1].number = 1
       /\ figures[1].caption = BarChart
       /\ figures[1].width = 300
       /\ figures[1].height = 300

\* The images of the document in encounter order (page order, then image
\* order within the page), as <<page number, image index>> pairs.
RECURSIVE ImagesInOrder(_)
ImagesInOrder(n) ==
    IF n = 0 THEN <<>>
    ELSE ImagesInOrder(n - 1) \o [k \in 1..Len(doc[n].images) |-> <<n, k>>]

ImageAt(pk) == doc[pk[1]].images[pk[2]]

\* The images that can be extracted and pass the size filter, in encounter
\* order.
RECURSIVE Filter(_, _)
Filter(sq, S) ==
    IF sq = <<>> THEN <<>>
    ELSE IF sq[1] \in S THEN <<sq[1]>> \o Filter(Tail(sq), S)
    ELSE Filter(Tail(sq), S)

SoundImagesInOrder == Filter(ImagesInOrder(Len(doc)), QualifyingImages)

\* C12: an image whose extraction fails is skipped and nothing else: the
\* extraction does not raise, and every other image of the document, on the
\* same page and on later pages, is still evaluated: the candidates are
\* exactly the extractable images of sufficient size.
C12_FailureIsolated ==
    /\ pc # "raised"
    /\ pc = "done" =>
          /\ Len(candidates) = Len(SoundImagesInOrder)
          /\ \A pk \in QualifyingImages :
                \E i \in DOMAIN candidates :
                    /\ candidates[i].page = pk[1]
                    /\ candidates[i].image_bytes = ImageAt(pk).bytes
                    /\ candidates[i].width = ImageAt(pk).width
                    /\ candidates[i].height = ImageAt(pk).height

\* C12 witness: the first image of page 1 cannot be extracted, and the image
\* after it on the same page is returned as figure 1.
C12_Witness ==
    /\ pc = "done"
    /\ Len(doc[1].images) = 2
    /\ ~doc[1].images[1].ok
    /\ doc[1].images[2].ok
    /\ Len(figures) = 1
    /\ figures[1].page = 1
    /\ files[figures[1].image_path] = doc[1].images[2].bytes

\* The images below the size limit: width < 200 or height < 200, a missing
\* dimension counting as 0.
SmallImages ==
    {pk \in UNION {{<<p, k>> : k \in DOMAIN doc[p].images} : p \in DOMAIN doc} :
        ImageAt(pk).ok /\ (ImageAt(pk).width < 200 \/ ImageAt(pk).height < 200)}

\* C16: every returned Figure has width >= 200 and height >= 200; an image
\* with width < 200 or height < 200, or without a dimension, is never a
\* candidate and never written to disk.
C16_OnlyLargeImages ==
    pc = "done" =>
        /\ \A i \in DOMAIN figures : figures[i].width >= 200 /\ figures[i].height >= 200
        /\ \A i \in DOMAIN candidates :
              /\ candidates[i].width >= 200 /\ candidates[i].height >= 200
              /\ \A pk \in SmallImages : candidates[i].image_bytes # ImageAt(pk).bytes
        /\ \A f \in DOMAIN files : \A pk \in SmallImages : files[f] # ImageAt(pk).bytes

\* C16 witness: of two images of one page the first is below the limit in
\* height only, the second exactly at the limit; only the second is returned.
C16_Witness ==
    /\ pc = "done"
    /\ Len(doc[1].images) = 2
    /\ doc[1].images[1].width >= 200 /\ doc[1].images[1].height = 199
    /\ doc[1].images[2].width = 200 /\ doc[1].images[2].height = 200
    /\ max_figures = 2
    /\ Len(figures) = 1
    /\ figures[1].width = 200 /\ figures[1].height = 200
    /\ Cardinality(DOMAIN files) = 1

\* Candidate c was made from image k of its page.
MadeFrom(c, k) ==
    /\ k \in DOMAIN doc[c.page].images
    /\ doc[c.page].images[k].bytes = c.image_bytes
    /\ FindFigureCaption(doc[c.page].text, k) = c.caption

\* C17: among candidates of equal priority, ranking, selection and numbering
\* follow the encounter order: page order, then image order within the page.
C17_TiesInEncounterOrder ==
    pc = "done" =>
        /\ \A i, j \in DOMAIN candidates :
              (i < j /\ candidates[i].priority = candidates[j].priority) =>
                  /\ candidates[i].page <= candidates[j].page
                  /\ candidates[i].page = candidates[j].page =>
                        \E a, b \in DOMAIN doc[candidates[i].page].images :
                            a < b /\ MadeFrom(candidates[i], a) /\ MadeFrom(candidates[j], b)
        /\ \A i \in DOMAIN figures :
              /\ figures[i].number = i
              /\ figures[i].page = candidates[i].page
              /\ figures[i].caption = candidates[i].caption
              /\ figures[i].width = candidates[i].width
              /\ files[figures[i].image_path] = candidates[i].image_bytes

\* C17 witness: two different images of equal score, one per page; with
\* max_figures = 1 the one of page 1 is selected and numbered 1.
C17_Witness ==
    /\ pc = "done"
    /\ Len(candidates) = 2
    /\ candidates[1].priority = candidates[2].priority
    /\ candidates[1].image_bytes # candidates[2].image_bytes
    /\ candidates[1].page = 1 /\ candidates[2].page = 2
    /\ max_figures = 1
    /\ Len(figures) = 1
    /\ files[figures[1].image_path] = candidates[1].image_bytes

\* The caption that the text of a page holds for figure n: "bar chart" for
\* figure 1 and "plot" for figure 2 of the page with both captions, each
\* followed by its terminator; none on the page without text, and none on
\* the page whose caption line ends the text.
CaptionOnPage(text, n) ==
    IF text = TwoCaptions /\ n = 1 THEN BarChart
    ELSE IF text = TwoCaptions /\ n = 2 THEN Plot
    ELSE <<>>

\* C24: the caption of a retained image is looked up as "Figure n"/"Fig. n",
\* n being the 1-based position of the image among all the images listed for
\* its page, those discarded by the size filter or skipped on failure
\* counted; the caption is empty when the page holds no such marker followed
\* by a blank line or another figure marker.
C24_CaptionByPosition ==
    pc = "done" =>
        \E f \in [DOMAIN candidates -> QualifyingImages] :
            /\ \A i, j \in DOMAIN candidates : f[i] = f[j] => i = j
            /\ \A i \in DOMAIN candidates :
                   /\ candidates[i].page = f[i][1]
                   /\ candidates[i].image_bytes = ImageAt(f[i]).bytes
                   /\ candidates[i].caption = CaptionOnPage(doc[f[i][1]].text, f[i][2])

\* C24 witness: the first image of the page is discarded for its size, and
\* the second one, the only figure, carries the caption of "Fig. 2".
C24_Witness ==
    /\ pc = "done"
    /\ doc[1].text = TwoCaptions
    /\ Len(doc[1].images) = 2
    /\ doc[1].images[1].ok /\ doc[1].images[1].height = 199
    /\ Len(figures) = 1
    /\ figures[1].caption = Plot

\* ----------------------------- specification: one output directory, reused
\* _extract_figures called several times with the same output directory, as
\* process_paper does for every paper with the attachments folder of the vault.

\* The most calls into the one directory.
MaxRuns == 3

\* The images of the documents: two PNG images of different content and a
\* JPEG image, all large enough to be kept.
RunImages == {
    [ok |-> TRUE, width |-> 300, height |-> 300, ext |-> "png", bytes |-> "square"],
    [ok |-> TRUE, width |-> 200, height |-> 200, ext |-> "png", bytes |-> "edge"],
    [ok |-> TRUE, width |-> 400, height |-> 225, ext |-> "jpeg", bytes |-> "wide"] }

\* One-page documents with at most two images.
RunDocuments ==
    {<<[text |-> <<>>, images |-> is]>> : is \in UNION {[1..k -> RunImages] : k \in 0..2}}

\* A plausible slip: mkdir without exist_ok raises when the directory is there.
MkdirRaisesIfPresent(exists) == exists

\* output_dir.mkdir(parents=True, exist_ok=True) raises for no state of the
\* directory.
MkdirRaises(exists) == FALSE

InitRuns ==
    /\ pc = "ready"
    /\ doc = <<>>
    /\ max_figures \in 0..MaxFigures
    /\ candidates = <<>>
    /\ figures = <<>>
    /\ files = EmptyDict
    /\ dir_exists = FALSE
    /\ runs = <<>>
    /\ notes = {}
    /\ answers = NoAnswers
    /\ config = [extract_figures |-> FALSE, extract_equations |-> FALSE,
                 extract_citations |-> FALSE, output_dir |-> FALSE]
    /\ metadata = [title |-> <<>>, author |-> <<>>]
    /\ openable = FALSE
    /\ handle = "none"
    /\ content = NoContent
    /\ full_text = <<>>
    /\ page_count = 0
    /\ IdlePage /\ IdleSections /\ IdleEquations /\ IdleCitations
    /\ IdleBatch /\ IdleWatch

\* One more call of _extract_figures(doc, output_dir), for some document.
ExtractFiguresAgain ==
    /\ pc \in {"ready", "done"}
    /\ Len(runs) < MaxRuns
    /\ \E d \in RunDocuments :
           /\ doc' = d
           /\ IF MkdirRaises(dir_exists)
              THEN /\ pc' = "raised"
                   /\ UNCHANGED <<candidates, figures, files, dir_exists, runs>>
              ELSE IF FiguresRaise(d)
              THEN /\ pc' = "raised"
                   /\ dir_exists' = TRUE
                   /\ UNCHANGED <<candidates, figures, files, runs>>
              ELSE /\ pc' = "done"
                   /\ dir_exists' = TRUE
                   /\ \E r \in {ExtractFigures(d, max_figures, files)} :
                          /\ candidates' = r.candidates
                          /\ figures' = r.figures
                          /\ files' = r.files
                          /\ runs' = Append(runs, [doc |-> d, figures |-> r.figures,
                                                   files |-> r.files])
    /\ UNCHANGED <<max_figures, notes, answers, config, metadata, openable, handle, content,
                   full_text, page_count>>
    /\ UNCHANGED <<pageVars, secVars, eqVars, citVars, batchVars, watchVars>>

NextRuns == ExtractFiguresAgain

SpecRuns == InitRuns /\ [][NextRuns]_vars

\* C25: after several documents were processed one after another into the
\* same output directory, the file at the image_path of every Figure
\* returned still exists and still holds that figure's own image (what the
\* call that returned the Figure wrote there): a later document does not
\* overwrite the figure files of an earlier one.
C25_EarlierFiguresKept ==
    \A i \in DOMAIN runs :
        \A k \in DOMAIN runs[i].figures :
            /\ runs[i].figures[k].image_path \in DOMAIN files
            /\ files[runs[i].figures[k].image_path] =
                   runs[i].files[runs[i].figures[k].image_path]

\* C26: figure extraction is idempotent: run twice for the same document,
\* max_figures and output directory, it succeeds both times, the directory
\* and the figure files being there already, and it returns the same Figure
\* records and leaves the same files as the first run.
C26_Idempotent ==
    /\ pc # "raised"
    /\ \A i \in DOMAIN runs :
           (i + 1 \in DOMAIN runs /\ runs[i + 1].doc = runs[i].doc) =>
               /\ runs[i + 1].figures = runs[i].figures
               /\ runs[i + 1].files = runs[i].files

\* C26 witness: a document with two images was extracted twice in a row
\* with max_figures = 2, after another document had left its files.
C26_Witness ==
    /\ pc = "done"
    /\ Len(runs) = 3
    /\ runs[1].doc # runs[2].doc
    /\ runs[2].doc = runs[3].doc
    /\ Len(runs[3].figures) = 2
    /\ Cardinality(DOMAIN runs[1].files) = 1

\* ----------------------------------- specification: the citation extractor

\* The longest text, in chunks, given to _extract_citations.
MaxCiteChunks == 5

\* The chunks the texts are made of.
CiteChunkPool == {
    <<"[">>,
    <<"]">>,
    <<"S", "m", "i", "t", "h">>,
    <<",", " ">>,
    <<"2", "0", "2", "0">>,
    <<"1", "2">> }

\* "see [Smith, 2020] and [12]"
BothMarkersText == <<"s", "e", "e", " ", "[", "S", "m", "i", "t", "h", ",", " ", "2", "0", "2", "0", "]", " ", "a", "n", "d", " ", "[", "1", "2", "]">>

\* "[Lee et al., 2019]"
EtAlText == <<"[", "L", "e", "e", " ", "e", "t", " ", "a", "l", ".", ",", " ", "2", "0", "1", "9", "]">>

CitationTexts ==
    {Concat(cs) : cs \in UNION {[1..n -> CiteChunkPool] : n \in 0..MaxCiteChunks}}
        \cup {BothMarkersText, EtAlText}

InitCitations ==
    /\ pc = "ready"
    /\ full_text \in CitationTexts
    /\ page_count = 1
    /\ citations = <<>>
    /\ IdlePage /\ IdleSections /\ IdleEquations /\ IdleFigures /\ IdleProcess
    /\ IdleOuter

\* One call of _extract_citations(full_text, doc).
ExtractCitationsCall ==
    /\ pc = "ready"
    /\ citations' = ExtractCitations(full_text, page_count)
    /\ pc' = "done"
    /\ UNCHANGED <<full_text, page_count, pageVars, secVars, eqVars, figVars, procVars,
                   outerVars>>

NextCitations == ExtractCitationsCall

SpecCitations == InitCitations /\ [][NextCitations]_vars

\* "[Smith, 2020]" and "[12]", and the texts claimed for their citations.
AuthorYearMarker == <<"[", "S", "m", "i", "t", "h", ",", " ", "2", "0", "2", "0", "]">>
AuthorYearText == <<"S", "m", "i", "t", "h", ",", " ", "2", "0", "2", "0">>
NumericMarker == <<"[", "1", "2", "]">>

\* The number of places where the text holds w, and the number of citations
\* whose text is w.
Occurrences(w) == Cardinality({i \in 1..Len(full_text) : ExactAt(full_text, i, w)})

CitationsWithText(w) == Cardinality({k \in DOMAIN citations : citations[k].text = w})

\* The bracketed spans of the text: a "[" and the next "]" with no bracket
\* between them.
BracketedSpans ==
    {i \in 1..Len(full_text) :
        /\ full_text[i] = "["
        /\ \E j \in (i + 1)..Len(full_text) :
               /\ full_text[j] = "]"
               /\ \A k \in (i + 1)..(j - 1) : full_text[k] \notin {"[", "]"}}

\* C15: a marker "[Smith, 2020]" yields a Citation with text "Smith, 2020",
\* a marker "[12]" a Citation with text "[12]", one for each place the marker
\* stands at; no bracketed span is emitted by both passes, so there are no
\* more citations than bracketed spans.
C15_CitationTexts ==
    pc = "done" =>
        /\ CitationsWithText(AuthorYearText) = Occurrences(AuthorYearMarker)
        /\ CitationsWithText(AuthorYearMarker) = 0
        /\ CitationsWithText(NumericMarker) = Occurrences(NumericMarker)
        /\ CitationsWithText(<<"1", "2">>) = 0
        /\ Len(citations) <= Cardinality(BracketedSpans)

\* C15 witness: "see [Smith, 2020] and [12]" yields the two citations, the
\* author-year one first.
C15_Witness ==
    /\ pc = "done"
    /\ full_text = BothMarkersText
    /\ Len(citations) = 2
    /\ citations[1].text = AuthorYearText
    /\ citations[2].text = NumericMarker

\* ------------------------------------------------ specification: process

\* _extract_text(doc): the page texts joined by newlines.
ExtractText(d) ==
    CHOOSE r \in {JoinLines(texts) : texts \in {[p \in 1..Len(d) |-> d[p].text]}} : TRUE

\* A plausible slip: the output_dir argument is not looked at.
FiguresEnabledWithoutDir(cfg) == cfg.extract_figures

\* if self.extract_figures and output_dir
FiguresEnabled(cfg) == cfg.extract_figures /\ cfg.output_dir

\* A step of process raises: with no handler in process, the exception leaves
\* it.
ProcessRaises(d, md, cfg) ==
    \/ TitleRaises(d, md)
    \/ FiguresEnabled(cfg) /\ FiguresRaise(d)

\* The PDFContent that process assembles.
ProcessContent(d, md, cfg, n_max, fs) ==
    CHOOSE r \in {
        [title |-> TitleOf(d, md),
         authors |-> AuthorsOf(md),
         abstract |-> AbstractOf(t),
         full_text |-> t,
         sections |-> ExtractSections(t).sections,
         figures |-> IF FiguresEnabled(cfg) THEN ExtractFigures(d, n_max, fs).figures ELSE <<>>,
         equations |-> IF cfg.extract_equations THEN ExtractEquations(t, Len(d)) ELSE <<>>,
         citations |-> IF cfg.extract_citations THEN ExtractCitations(t, Len(d)) ELSE <<>>,
         page_count |-> Len(d)] :
        t \in {ExtractText(d)}} : TRUE

\* The longest document given to process, in pages.
MaxDocPages == 2

\* "A Study of Things\nAbstract\nWe study X.\nIntroduction\nSee [12], $x=y$.\n"
PaperPageText == <<"A", " ", "S", "t", "u", "d", "y", " ", "o", "f", " ", "T", "h", "i", "n", "g", "s", "\n", "A", "b", "s", "t", "r", "a", "c", "t", "\n", "W", "e", " ", "s", "t", "u", "d", "y", " ", "X", ".", "\n", "I", "n", "t", "r", "o", "d", "u", "c", "t", "i", "o", "n", "\n", "S", "e", "e", " ", "[", "1", "2", "]", ",", " ", "$", "x", "=", "y", "$", ".", "\n">>

\* "Intro\n"
ShortPageText == <<"I", "n", "t", "r", "o", "\n">>

\* "Fig. 1: plots\n\n[Smith, 2020]\n"
FigurePageText == <<"F", "i", "g", ".", " ", "1", ":", " ", "p", "l", "o", "t", "s", "\n", "\n", "[", "S", "m", "i", "t", "h", ",", " ", "2", "0", "2", "0", "]", "\n">>

\* "A Title"
SomeTitle == <<"A", " ", "T", "i", "t", "l", "e">>

\* "Ann Lee, Bo Diaz"
SomeAuthor == <<"A", "n", "n", " ", "L", "e", "e", ",", " ", "B", "o", " ", "D", "i", "a", "z">>

SquareImage ==
    [ok |-> TRUE, width |-> 300, height |-> 300, ext |-> "png", bytes |-> "square"]

\* The pages: the paper page with and without an image, a short page without
\* one, a page with a captioned image.
ProcessPages == {
    [text |-> PaperPageText, images |-> <<SquareImage>>],
    [text |-> PaperPageText, images |-> <<>>],
    [text |-> ShortPageText, images |-> <<>>],
    [text |-> FigurePageText, images |-> <<SquareImage>>] }

ProcessDocuments == UNION {[1..n -> ProcessPages] : n \in 0..MaxDocPages}

InitProcess ==
    /\ pc = "ready"
    /\ doc \in ProcessDocuments
    /\ metadata \in [title : {<<>>, SomeTitle}, author : {<<>>, SomeAuthor}]
    /\ config \in [extract_figures : BOOLEAN, extract_equations : BOOLEAN,
                   extract_citations : BOOLEAN, output_dir : BOOLEAN]
    /\ openable \in BOOLEAN
    /\ max_figures = 2
    /\ handle = "none"
    /\ dir_exists = FALSE
    /\ content = NoContent
    /\ candidates = <<>> /\ figures = <<>> /\ files = EmptyDict
    /\ full_text = <<>>
    /\ page_count = 0
    /\ IdlePage /\ IdleSections /\ IdleEquations /\ IdleCitations /\ IdleOuter

\* One call of process(pdf_path, output_dir).
Process ==
    /\ pc = "ready"
    /\ IF ~openable
       THEN /\ pc' = "raised"
            /\ UNCHANGED <<handle, content, files, dir_exists>>
       ELSE IF ProcessRaises(doc, metadata, config)
       THEN /\ pc' = "raised"
            /\ handle' = "open"
            /\ UNCHANGED <<content, files, dir_exists>>
       ELSE /\ pc' = "done"
            /\ handle' = "closed"
            /\ content' = ProcessContent(doc, metadata, config, max_figures, files)
            /\ files' = IF FiguresEnabled(config)
                        THEN ExtractFigures(doc, max_figures, files).files
                        ELSE files
            /\ dir_exists' = (dir_exists \/ FiguresEnabled(config))
    /\ UNCHANGED <<doc, max_figures, candidates, figures, full_text, page_count,
                   config, metadata, openable>>
    /\ UNCHANGED <<pageVars, secVars, eqVars, citVars, outerVars>>

NextProcess == Process

SpecProcess == InitProcess /\ [][NextProcess]_vars

\* C13: a failure of the title, section, equation or citation extraction
\* leaves the field at its default and process still returns; process raises
\* only when the document cannot be opened or read.
C13_RaisesOnlyWhenUnreadable ==
    /\ pc = "raised" => ~openable
    /\ (pc = "done" /\ metadata.title = <<>> /\ Len(doc) = 0) => content.title = <<>>

\* C18: figure extraction runs only when extract_figures is true and an
\* output directory is supplied; otherwise figures is empty, no file is
\* written and no directory created.  equations is empty when
\* extract_equations is false, citations when extract_citations is false;
\* each flag decides its own field only, and title, authors, abstract, full
\* text and sections are produced whatever the flags.
C18_FlagsGateTheirField ==
    pc = "done" =>
        /\ ~(config.extract_figures /\ config.output_dir) =>
               /\ content.figures = <<>>
               /\ files = EmptyDict
               /\ ~dir_exists
        /\ (config.extract_figures /\ config.output_dir) =>
               /\ content.figures = ExtractFigures(doc, max_figures, EmptyDict).figures
               /\ files = ExtractFigures(doc, max_figures, EmptyDict).files
               /\ dir_exists
        /\ content.equations =
               IF config.extract_equations
               THEN ExtractEquations(content.full_text, Len(doc)) ELSE <<>>
        /\ content.citations =
               IF config.extract_citations
               THEN ExtractCitations(content.full_text, Len(doc)) ELSE <<>>
        /\ content.full_text = ExtractText(doc)
        /\ content.sections = ExtractSections(content.full_text).sections
        /\ content.title = TitleOf(doc, metadata)
        /\ content.authors = AuthorsOf(metadata)
        /\ content.abstract = AbstractOf(content.full_text)
        /\ content.page_count = Len(doc)

\* C18 witness: a page with an image, an equation and a citation, processed
\* with extract_figures but no output directory, with extract_equations and
\* without extract_citations: only the equation is there, besides the title,
\* the abstract and the sections.
C18_Witness ==
    /\ pc = "done"
    /\ config.extract_figures /\ ~config.output_dir
    /\ config.extract_equations /\ ~config.extract_citations
    /\ doc = <<[text |-> PaperPageText, images |-> <<SquareImage>>]>>
    /\ content.figures = <<>> /\ files = EmptyDict /\ ~dir_exists
    /\ Len(content.equations) = 1
    /\ content.citations = <<>>
    /\ content.title # <<>>
    /\ content.abstract # <<>>
    /\ Cardinality(DOMAIN content.sections) = 2

\* -------------------------------------------------- _extract_metadata, run
\* _extract_metadata(doc, text) on documents whose first page holds a number
\* of short lines followed by lines that may or may not qualify as a title.

\* The most short lines at the top of the first page.
MaxShortLines == 10

\* "ab"
ShortLine == <<"a", "b">>

\* "A Long Title": 12 characters
LongLine == <<"A", " ", "L", "o", "n", "g", " ", "T", "i", "t", "l", "e">>

\* "  Eleven chrs ": 11 characters when trimmed
PaddedLine == <<" ", " ", "E", "l", "e", "v", "e", "n", " ", "c", "h", "r", "s", " ">>

\* " exactly10c  ": 13 characters, 10 when trimmed
TenLine == <<" ", "e", "x", "a", "c", "t", "l", "y", "1", "0", "c", " ", " ">>

TitleLinePool == {LongLine, PaddedLine, TenLine, <<>>}

\* The first pages: k short lines, then at most two lines of the pool.
TitleTexts ==
    {JoinLines([i \in 1..k |-> ShortLine] \o tail) :
        k \in 0..MaxShortLines,
        tail \in UNION {[1..n -> TitleLinePool] : n \in 0..2}}

\* " ", a metadata title that is not empty
BlankTitle == <<" ">>

InitMetadata ==
    /\ pc = "ready"
    /\ doc \in {<<>>} \cup {<<[text |-> t, images |-> <<>>]>> : t \in TitleTexts}
    /\ metadata \in [title : {<<>>, SomeTitle, BlankTitle}, author : {<<>>, SomeAuthor}]
    /\ content = NoContent
    /\ config = [extract_figures |-> FALSE, extract_equations |-> FALSE,
                 extract_citations |-> FALSE, output_dir |-> FALSE]
    /\ openable = TRUE
    /\ handle = "open"
    /\ dir_exists = FALSE
    /\ max_figures = 0
    /\ candidates = <<>> /\ figures = <<>> /\ files = EmptyDict
    /\ full_text = <<>>
    /\ page_count = 0
    /\ IdlePage /\ IdleSections /\ IdleEquations /\ IdleCitations /\ IdleOuter

\* One call of _extract_metadata(doc, text), text being the text of doc.
ExtractMetadataCall ==
    /\ pc = "ready"
    /\ IF TitleRaises(doc, metadata)
       THEN /\ pc' = "raised"
            /\ UNCHANGED content
       ELSE /\ pc' = "done"
            /\ \E text \in {ExtractText(doc)} :
                  content' = [content EXCEPT !.title = TitleOf(doc, metadata),
                                             !.authors = AuthorsOf(metadata),
                                             !.abstract = AbstractOf(text)]
    /\ UNCHANGED <<doc, metadata, config, openable, handle, dir_exists, max_figures,
                   candidates, figures, files, full_text, page_count>>
    /\ UNCHANGED <<pageVars, secVars, eqVars, citVars, outerVars>>

NextMetadata == ExtractMetadataCall

SpecMetadata == InitMetadata /\ [][NextMetadata]_vars

\* The line breaks of t before index i.
BreaksBefore(t, i) == Cardinality({j \in 1..(i - 1) : t[j] = "\n"})

\* The indices of the characters of line k of t (k = 1 for the first line).
LineIndices(t, k) == {i \in 1..Len(t) : t[i] # "\n" /\ BreaksBefore(t, i) = k - 1}

\* Line k of t.
LineOf(t, k) ==
    IF LineIndices(t, k) = {} THEN <<>>
    ELSE SubSeq(t, SetMin(LineIndices(t, k)), SetMax(LineIndices(t, k)))

\* The lines of t, among its first 10, whose trimmed length exceeds 10.
TitleCandidates(t) ==
    {k \in 1..10 : k <= BreaksBefore(t, Len(t) + 1) + 1 /\ Len(Strip(LineOf(t, k))) > 10}

\* C23: the title is the metadata title when that is present and not empty;
\* otherwise it is the trimmed first line, among the first 10 lines of the
\* first page's text, whose trimmed length exceeds 10 characters, and the
\* empty string when there is no such line.
C23_TitleRule ==
    pc = "done" =>
        IF metadata.title # <<>> THEN content.title = metadata.title
        ELSE IF TitleCandidates(doc[1].text) = {} THEN content.title = <<>>
        ELSE content.title = Strip(LineOf(doc[1].text, SetMin(TitleCandidates(doc[1].text))))

\* C23 witness: no metadata title; the tenth line of the first page, 13
\* characters long and 10 when trimmed, is passed over, the eleventh line is
\* long enough but out of reach, and the title is empty.
C23_Witness ==
    /\ pc = "done"
    /\ metadata.title = <<>>
    /\ doc = <<[text |-> JoinLines([i \in 1..9 |-> ShortLine] \o <<TenLine, LongLine>>),
               images |-> <<>>]>>
    /\ content.title = <<>>

\* ------------------------------------------------------- _get_context, run
\* The equation and citation extraction of process on texts long enough for
\* the context window to be cut on either side: one marker between two runs
\* of a filler character.

\* The longest run of filler characters on one side of the marker.
MaxPad == 102

PadLengths == {0, 1, ContextWindow - 1, ContextWindow, ContextWindow + 1, MaxPad}

\* "[12]", "[Smith, 2020]", "$x=y$", "$$x$$"
MarkerPool == {
    <<"[", "1", "2", "]">>,
    <<"[", "S", "m", "i", "t", "h", ",", " ", "2", "0", "2", "0", "]">>,
    <<"$", "x", "=", "y", "$">>,
    <<"$", "$", "x", "$", "$">> }

Pad(n, c) == [i \in 1..n |-> c]

ContextTexts ==
    {Pad(a, c) \o m \o Pad(b, c) :
        a \in PadLengths, b \in PadLengths, c \in {"x", " "}, m \in MarkerPool}

InitContext ==
    /\ pc = "ready"
    /\ full_text \in ContextTexts
    /\ page_count = 1
    /\ equations = <<>>
    /\ citations = <<>>
    /\ IdlePage /\ IdleSections /\ IdleFigures /\ IdleProcess /\ IdleOuter

\* process with extract_equations and extract_citations: the two calls
\* _extract_equations(full_text, doc) and _extract_citations(full_text, doc).
ExtractMatchesCall ==
    /\ pc = "ready"
    /\ equations' = ExtractEquations(full_text, page_count)
    /\ citations' = ExtractCitations(full_text, page_count)
    /\ pc' = "done"
    /\ UNCHANGED <<full_text, page_count, pageVars, secVars, figVars, procVars, outerVars>>

NextContext == ExtractMatchesCall

SpecContext == InitContext /\ [][NextContext]_vars

\* The texts a match of the given Equation or Citation can have been: the
\* LaTeX between one or two dollar signs, the citation text as it is or
\* between brackets.
SpansOfEquation(e) ==
    {<<"$">> \o e.latex \o <<"$">>, <<"$", "$">> \o e.latex \o <<"$", "$">>}

SpansOfCitation(c) == {c.text, <<"[">> \o c.text \o <<"]">>}

\* ctx is the context of a match that is the text span: the span stands at
\* some start..end of t, ctx is the slice of t from max(0, start - 100) to
\* min(len(t), end + 100), trimmed; it lies inside t, holds the whole span
\* and at most 100 characters on each side of it.
IsContextOf(t, ctx, span) ==
    \E start \in 0..(Len(t) - Len(span)) :
        /\ Slice(t, start, start + Len(span)) = span
        /\ ctx = Strip(Slice(t, Max(0, start - 100), Min(Len(t), start + Len(span) + 100)))
        /\ \E a \in Max(0, start - 100)..start :
               /\ a + Len(ctx) >= start + Len(span)
               /\ a + Len(ctx) <= Min(Len(t), start + Len(span) + 100)
               /\ ctx = Slice(t, a, a + Len(ctx))

\* C22: the context of every Equation and Citation is the slice of the full
\* text from max(0, start - 100) to min(len(text), end + 100) around the
\* match, trimmed: it holds the whole match, at most 100 characters on each
\* side, and nothing from outside the text.
C22_ContextWindow ==
    pc = "done" =>
        /\ \A k \in DOMAIN equations :
               \E span \in SpansOfEquation(equations[k]) :
                   IsContextOf(full_text, equations[k].context, span)
        /\ \A k \in DOMAIN citations :
               \E span \in SpansOfCitation(citations[k]) :
                   IsContextOf(full_text, citations[k].context, span)

\* C22 witness: a citation with more than 100 characters before it and fewer
\* after it: the context is cut 100 characters before the match and runs to
\* the end of the text.
C22_Witness ==
    /\ pc = "done"
    /\ full_text = Pad(101, "x") \o <<"[", "1", "2", "]">> \o Pad(ContextWindow - 1, "x")
    /\ Len(citations) = 1
    /\ citations[1].context = Pad(100, "x") \o <<"[", "1", "2", "]">> \o Pad(ContextWindow - 1, "x")

\* C30: process closes the document handle it opened before it finishes, on
\* every path: when it returns a result and when an extraction step raises.
C30_HandleClosed ==
    pc \in {"done", "raised"} => handle # "open"

\* ------------------------------------------------------------ process_paper
\* What HedorahPipeline.process_paper reads of one paper: the document
\* behind the path and whether the model calls made for it answer.

\* The processor the pipeline builds: every extraction on by default, and
\* process is always given the attachments folder.
PipelineConfig ==
    [extract_figures |-> TRUE, extract_equations |-> TRUE,
     extract_citations |-> TRUE, output_dir |-> TRUE]

\* process_paper raises: nothing in it handles an exception, so it raises
\* when PDFProcessor.process does or when a later step (descriptions,
\* summary, analysis, experiments, notes) does.
PaperRaises(p) ==
    \/ ~p.openable
    \/ ProcessRaises(p.doc, p.metadata, PipelineConfig)
    \/ ~p.llm_ok

GoodPaper ==
    [doc |-> <<[text |-> PaperPageText, images |-> <<>>]>>,
     metadata |-> [title |-> <<>>, author |-> <<>>],
     openable |-> TRUE, llm_ok |-> TRUE]

\* A file that pymupdf cannot open.
UnreadablePaper ==
    [doc |-> <<>>, metadata |-> [title |-> <<>>, author |-> <<>>],
     openable |-> FALSE, llm_ok |-> TRUE]

\* A document without pages and without a title.
EmptyPaper ==
    [doc |-> <<>>, metadata |-> [title |-> <<>>, author |-> <<>>],
     openable |-> TRUE, llm_ok |-> TRUE]

\* A paper for which a model call fails.
UnansweredPaper ==
    [doc |-> <<[text |-> ShortPageText, images |-> <<>>]>>,
     metadata |-> [title |-> SomeTitle, author |-> <<>>],
     openable |-> TRUE, llm_ok |-> FALSE]

PaperPool == {GoodPaper, UnreadablePaper, EmptyPaper, UnansweredPaper}

\* "a.pdf", "b.pdf", "c.PDF", "n.txt", ".pdf"
NamePool == {
    <<"a", ".", "p", "d", "f">>,
    <<"b", ".", "p", "d", "f">>,
    <<"c", ".", "P", "D", "F">>,
    <<"n", ".", "t", "x", "t">>,
    <<".", "p", "d", "f">> }

\* "*.pdf", matched case-sensitively as on a POSIX file system.
PdfPattern == <<".", "p", "d", "f">>

GlobMatches(name) ==
    /\ Len(name) >= Len(PdfPattern)
    /\ ExactAt(name, Len(name) - Len(PdfPattern) + 1, PdfPattern)

\* The orders in which glob may yield the names of S.
Listings(S) ==
    {l \in [1..Cardinality(S) -> S] : \A i, j \in DOMAIN l : l[i] = l[j] => i = j}

\* ------------------------------------------- specification: process_paper
\* One call of HedorahPipeline.process_paper.  `answers` fixes beforehand
\* what the outside world will do: the figure descriptions the local model
\* returns, which model call raises, what the analysis holds, and which
\* note write fails (0: none).

\* The most entries in the list of figure descriptions, and the most
\* experiment proposals.
MaxDescriptions == 2
MaxExperiments == 2

\* A plausible slip: figure_number is used as the list index as it is.
FigNumOneBased(e) == IF e.figure_number.kind = "missing" THEN 0 ELSE e.figure_number.n

\* fig_num = fig_desc.get("figure_number", 0) - 1
FigNum(e) == (IF e.figure_number.kind = "missing" THEN 0 ELSE e.figure_number.n) - 1

\* The subtraction raises TypeError for a figure_number that is no number.
EntryRaises(e) == e.figure_number.kind = "str"

\* f"{desc} {importance}".strip(), a missing key read as ""
DescriptionOf(e) == Strip(e.description \o <<" ">> \o e.importance)

\* One round of the write-back loop on the figures figs.
WriteBackEntry(figs, e) ==
    IF 0 <= FigNum(e) /\ FigNum(e) < Len(figs)
    THEN [figs EXCEPT ![FigNum(e) + 1].description = DescriptionOf(e)]
    ELSE figs

\* One round on the state the rounds before have left.
WriteBackStep(prev, e) ==
    IF prev.raised THEN prev
    ELSE IF EntryRaises(e) THEN [figures |-> prev.figures, raised |-> TRUE]
    ELSE [figures |-> WriteBackEntry(prev.figures, e), raised |-> FALSE]

\* The first k rounds of `for fig_desc in figure_descriptions`.
RECURSIVE WriteBack(_, _, _)
WriteBack(figs, entries, k) ==
    IF k = 0 THEN [figures |-> figs, raised |-> FALSE]
    ELSE CHOOSE r \in {WriteBackStep(prev, entries[k]) :
                       prev \in {WriteBack(figs, entries, k - 1)}} : TRUE

\* Step 1b: nothing is asked for a paper without figures; the call of the
\* local model may raise; else the descriptions are written back.
DescribeFigures(figs, ans) ==
    IF figs = <<>> THEN [figures |-> figs, raised |-> FALSE]
    ELSE IF ans.descriptions.raises THEN [figures |-> figs, raised |-> TRUE]
    ELSE WriteBack(figs, ans.descriptions.entries, Len(ans.descriptions.entries))

\* Steps 2 to 4: the summary, the analysis, and the experiments unless they
\* are skipped.
LaterStepRaises(ans) ==
    \/ ans.summary_raises
    \/ ans.analysis.raises
    \/ ~ans.skip_experiments /\ ans.experiments.raises

\* The notes _create_notes writes, in its order: the paper note, the insights
\* and the connections note when the analysis holds any, one note per
\* experiment.
NoteSequence(ans) ==
    <<<<"paper", 0>>>>
    \o (IF ans.analysis.key_insights THEN <<<<"insights", 0>>>> ELSE <<>>)
    \o (IF ans.analysis.connections THEN <<<<"connections", 0>>>> ELSE <<>>)
    \o (IF ans.skip_experiments THEN <<>>
        ELSE [i \in 1..ans.experiments.count |-> <<"experiment", i>>])

\* A plausible slip: a failing write leaves no note behind.
NotesBeforeFailureNone(ns, j) == {}

\* The notes in the vault when write j of the sequence ns raises.
NotesBeforeFailure(ns, j) == {ns[i] : i \in 1..(j - 1)}

\* Step 5 on the notes already in the vault.
CreateNotes(old, ans) ==
    CHOOSE r \in {
        IF ans.write_fails_at \in 1..Len(ns)
        THEN [raised |-> TRUE, notes |-> old \cup NotesBeforeFailure(ns, ans.write_fails_at)]
        ELSE [raised |-> FALSE, notes |-> old \cup {ns[i] : i \in 1..Len(ns)}] :
        ns \in {NoteSequence(ans)}} : TRUE

\* One call of process_paper(pdf_path, skip_experiments).
ProcessPaper ==
    /\ pc = "ready"
    /\ IF ~openable \/ ProcessRaises(doc, metadata, PipelineConfig)
       THEN /\ pc' = "raised"
            /\ handle' = IF openable THEN "open" ELSE "none"
            /\ UNCHANGED <<content, candidates, figures, files, dir_exists, notes>>
       ELSE \E base \in {ProcessContent(doc, metadata, PipelineConfig, max_figures, files)},
               saved \in {ExtractFigures(doc, max_figures, files)} :
            /\ handle' = "closed"
            /\ candidates' = saved.candidates
            /\ figures' = saved.figures
            /\ files' = saved.files
            /\ dir_exists' = TRUE
            /\ \E wb \in {DescribeFigures(base.figures, answers)} :
                  /\ content' = [base EXCEPT !.figures = wb.figures]
                  /\ IF wb.raised \/ LaterStepRaises(answers)
                     THEN pc' = "raised" /\ notes' = notes
                     ELSE \E made \in {CreateNotes(notes, answers)} :
                              /\ pc' = IF made.raised THEN "raised" ELSE "done"
                              /\ notes' = made.notes
    /\ UNCHANGED <<doc, metadata, openable, config, max_figures, answers, runs,
                   full_text, page_count>>
    /\ UNCHANGED <<pageVars, secVars, eqVars, citVars, batchVars, watchVars>>

NextPaper == ProcessPaper

\* "d", "i"
SomeDescription == <<"d">>
SomeImportance == <<"i">>

\* The entries of the list the local model returns: figure_number missing,
\* 0..3 or a string, with a description or without; one entry with an
\* importance as well.
EntryPool ==
    [figure_number : {[kind |-> "missing", n |-> 0], [kind |-> "str", n |-> 0]}
                     \cup [kind : {"int"}, n : 0..3],
     description : {<<>>, SomeDescription},
     importance : {<<>>}]
    \cup {[figure_number |-> [kind |-> "int", n |-> 2],
           description |-> SomeDescription, importance |-> SomeImportance]}

\* The papers: one figure; two figures; none; no page and no title; a file
\* that cannot be opened.
PaperDocs == {
    [doc |-> <<[text |-> FigurePageText, images |-> <<SquareImage>>]>>, openable |-> TRUE],
    [doc |-> <<[text |-> PaperPageText, images |-> <<SquareImage>>],
               [text |-> FigurePageText, images |-> <<SquareImage>>]>>, openable |-> TRUE],
    [doc |-> <<[text |-> PaperPageText, images |-> <<>>]>>, openable |-> TRUE],
    [doc |-> <<>>, openable |-> TRUE],
    [doc |-> <<>>, openable |-> FALSE] }

\* What does not vary from one call to the next.
InitPaperRest ==
    /\ pc = "ready"
    /\ metadata = [title |-> <<>>, author |-> <<>>]
    /\ config = PipelineConfig
    /\ max_figures = 2
    /\ handle = "none"
    /\ dir_exists = FALSE
    /\ content = NoContent
    /\ candidates = <<>> /\ figures = <<>> /\ files = EmptyDict
    /\ notes = {}
    /\ runs = <<>>
    /\ full_text = <<>>
    /\ page_count = 0
    /\ IdlePage /\ IdleSections /\ IdleEquations /\ IdleCitations
    /\ IdleBatch /\ IdleWatch

\* The calls in which the model answers with any list of descriptions and
\* nothing else fails, for the papers that can be opened.
InitWriteBack ==
    /\ answers \in
           [descriptions : [raises : {FALSE},
                            entries : UNION {[1..n -> EntryPool] : n \in 0..MaxDescriptions}],
            summary_raises : {FALSE},
            analysis : [raises : {FALSE}, key_insights : {TRUE}, connections : {FALSE}],
            experiments : [raises : {FALSE}, count : {0}],
            skip_experiments : {TRUE},
            write_fails_at : {0}]
    /\ \E p \in {q \in PaperDocs : q.openable} : doc = p.doc /\ openable = p.openable
    /\ InitPaperRest

SpecWriteBack == InitWriteBack /\ [][NextPaper]_vars

\* The calls in which any step may fail, for the papers of at most one page.
InitPaper ==
    /\ answers \in
         {a \in
           [descriptions : [raises : BOOLEAN,
                            entries : {<<>>, <<[figure_number |-> [kind |-> "int", n |-> 1],
                                                description |-> SomeDescription,
                                                importance |-> <<>>]>>}],
            summary_raises : BOOLEAN,
            analysis : [raises : BOOLEAN, key_insights : BOOLEAN, connections : BOOLEAN],
            experiments : [raises : BOOLEAN, count : 0..MaxExperiments],
            skip_experiments : BOOLEAN,
            write_fails_at : 0..(3 + MaxExperiments)] :
            /\ a.descriptions.raises => a.descriptions.entries = <<>>
            /\ a.analysis.raises => ~a.analysis.key_insights /\ ~a.analysis.connections
            /\ a.experiments.raises => a.experiments.count = 0}
    /\ \E p \in {q \in PaperDocs : Len(q.doc) <= 1} : doc = p.doc /\ openable = p.openable
    /\ InitPaperRest

SpecPaper == InitPaper /\ [][NextPaper]_vars

\* What process returned for the paper, before the write-back.
Extracted == ProcessContent(doc, metadata, PipelineConfig, max_figures, EmptyDict)

\* The figures that some entry of the list names.
NamedFigures ==
    {k \in DOMAIN content.figures :
        \E j \in DOMAIN answers.descriptions.entries :
            /\ answers.descriptions.entries[j].figure_number.kind = "int"
            /\ answers.descriptions.entries[j].figure_number.n = k}

\* C21: the write-back of figure descriptions changes only the description
\* of Figures whose reported figure_number is in 1..len(figures); an entry
\* with an out-of-range or missing figure_number changes nothing; number,
\* caption, image_path, page, width and height of every Figure, the length
\* and order of the list and every other field of the content stay as they
\* were.
C21_OnlyDescriptionsChange ==
    (pc \in {"done", "raised"} /\ handle = "closed") =>
        \E before \in {Extracted} :
            /\ Len(content.figures) = Len(before.figures)
            /\ \A k \in DOMAIN content.figures :
                   /\ content.figures[k] =
                          [before.figures[k] EXCEPT !.description = content.figures[k].description]
                   /\ content.figures[k].description # before.figures[k].description
                          => k \in NamedFigures
            /\ content = [before EXCEPT !.figures = content.figures]

\* C21 witness: of two entries, one names figure 3 of a paper with two
\* figures and one names figure 2: only the description of figure 2 is set.
C21_Witness ==
    /\ pc = "done"
    /\ Len(content.figures) = 2
    /\ Len(answers.descriptions.entries) = 2
    /\ answers.descriptions.entries[1].figure_number = [kind |-> "int", n |-> 3]
    /\ answers.descriptions.entries[2].figure_number = [kind |-> "int", n |-> 2]
    /\ content.figures[1].description = <<>>
    /\ content.figures[2].description # <<>>
    /\ content.figures[2].number = 2

\* The extraction of step 1 raises.
ExtractionFails == ~openable \/ (metadata.title = <<>> /\ Len(doc) = 0)

\* A model call of steps 1b to 4 raises.
ModelCallFails ==
    \/ files # EmptyDict /\ answers.descriptions.raises
    \/ answers.summary_raises
    \/ answers.analysis.raises
    \/ ~answers.skip_experiments /\ answers.experiments.raises

\* The notes the call is to write, in order.
NotesDue ==
    <<<<"paper", 0>>>>
    \o (IF answers.analysis.key_insights THEN <<<<"insights", 0>>>> ELSE <<>>)
    \o (IF answers.analysis.connections THEN <<<<"connections", 0>>>> ELSE <<>>)
    \o (IF answers.skip_experiments THEN <<>>
        ELSE [i \in 1..answers.experiments.count |-> <<"experiment", i>>])

MaxFiles == 3

Directories == UNION {[N -> PaperPool] : N \in {M \in SUBSET NamePool : Cardinality(M) <= MaxFiles}}

ErrorEntry == [kind |-> "error"]
NotesEntry == [kind |-> "notes"]

\* A plausible slip: a failing PDF is logged and skipped, without an entry.
AfterPaperWithoutErrorEntry(res, name, p) ==
    IF PaperRaises(p) THEN res ELSE DictPut(res, name, NotesEntry)

\* One round of the loop: results[pdf_path.name] is the notes created, or
\* {"error": str(e)} when process_paper raised.
AfterPaper(res, name, p) ==
    IF PaperRaises(p) THEN DictPut(res, name, ErrorEntry)
    ELSE DictPut(res, name, NotesEntry)

InitBatch ==
    /\ pc = "ready"
    /\ directory \in Directories
    /\ pdf_files = <<>>
    /\ results = EmptyDict
    /\ batch_done = 0
    /\ full_text = <<>>
    /\ page_count = 0
    /\ IdlePage /\ IdleSections /\ IdleEquations /\ IdleFigures
    /\ IdleCitations /\ IdleProcess /\ IdleWatch /\ IdlePaper

\* results = {} and pdf_files = list(directory.glob("*.pdf")).
ListPdfs ==
    /\ pc = "ready"
    /\ pdf_files' \in Listings({n \in DOMAIN directory : GlobMatches(n)})
    /\ results' = EmptyDict
    /\ batch_done' = 0
    /\ pc' = "running"
    /\ UNCHANGED directory

\* One round of `for pdf_path in pdf_files`.
ProcessNextPdf ==
    /\ pc = "running"
    /\ batch_done < Len(pdf_files)
    /\ \E name \in {pdf_files[batch_done + 1]} :
           results' = AfterPaper(results, name, directory[name])
    /\ batch_done' = batch_done + 1
    /\ UNCHANGED <<pc, directory, pdf_files>>

\* return results
ReturnResults ==
    /\ pc = "running"
    /\ batch_done = Len(pdf_files)
    /\ pc' = "done"
    /\ UNCHANGED <<directory, pdf_files, results, batch_done>>

NextBatch ==
    /\ (ListPdfs \/ ProcessNextPdf \/ ReturnResults)
    /\ UNCHANGED <<full_text, page_count, pageVars, secVars, eqVars, figVars,
                   citVars, procVars, watchVars, paperVars>>

SpecBatch == InitBatch /\ [][NextBatch]_vars

\* The names the loop is through with, in the order of the list.
NamesDone == {pdf_files[k] : k \in 1..batch_done}

\* C19: process_directory takes the PDFs one after another; a PDF whose
\* process_paper raises gets an {"error": ...} entry and the loop goes on;
\* the map returned has exactly one entry for every PDF found in the directory.
C19_OneEntryPerPdf ==
    /\ pc \in {"running", "done"} =>
           /\ DOMAIN results = NamesDone
           /\ \A n \in DOMAIN results :
                  results[n] = IF PaperRaises(directory[n]) THEN ErrorEntry ELSE NotesEntry
    /\ pc = "done" =>
           /\ batch_done = Len(pdf_files)
           /\ DOMAIN results = {n \in DOMAIN directory : GlobMatches(n)}
           /\ Cardinality(DOMAIN results) = Len(pdf_files)

\* C19 witness: a batch that has returned, in which a PDF that failed came
\* before one that was processed.
C19_Witness ==
    /\ pc = "done"
    /\ \E i, j \in DOMAIN pdf_files :
           /\ i < j
           /\ results[pdf_files[i]] = ErrorEntry
           /\ results[pdf_files[j]] = NotesEntry
    /\ \E n \in DOMAIN directory : ~GlobMatches(n)

\* ------------------------------------------------------------ VaultWatcher
\* The inbox watcher (src/hedorah/watcher.py).  Two threads run its code:
\* the thread that calls VaultWatcher.start, and the observer's thread, which
\* takes the creation events from the observer's queue one at a time and
\* calls on_created for each, the next one when the call has returned.

\* The most files created in the inbox while the watcher runs.
MaxEvents == 3

\* "d.pdf", a directory
DirName == <<"d", ".", "p", "d", "f">>

\* "a.pdf", "c.PDF", "n.txt"
WatchNames == {
    <<"a", ".", "p", "d", "f">>,
    <<"c", ".", "P", "D", "F">>,
    <<"n", ".", "t", "x", "t">> }

WatchPapers == {GoodPaper, UnreadablePaper}

\* The inbox when start is called.
Inboxes == UNION {[N -> WatchPapers] : N \in SUBSET WatchNames}

\* What is created in the inbox: a file of some content, or the directory.
Creations ==
    [name : WatchNames, paper : WatchPapers, is_directory : {FALSE}]
    \cup {[name |-> DirName, paper |-> UnreadablePaper, is_directory |-> TRUE]}

\* Path.suffix: the name from its last dot on, empty when the name has no
\* dot or only a leading or a trailing one.
SuffixOf(name) ==
    IF \A i \in DOMAIN name : name[i] # "." THEN <<>>
    ELSE CHOOSE r \in {IF i = 1 \/ i = Len(name) THEN <<>> ELSE SubSeq(name, i, Len(name)) :
                       i \in {SetMax({j \in DOMAIN name : name[j] = "."})}} : TRUE

\* str.lower()
LowerOf(t) == [k \in DOMAIN t |-> Lower(t[k])]

\* The event passes the two filters of on_created: not a directory, and the
\* suffix is .pdf in any case.
IsPdfEvent(e) == ~e.is_directory /\ LowerOf(SuffixOf(e.src_path)) = PdfPattern

\* A plausible slip: the observer is started before the existing PDFs are
\* processed.
StartSequenceObserverFirst == <<"observer_start", "process_existing", "sleep">>

\* start: _process_existing_pdfs(), then observer.start(), then the sleep loop.
StartSequence == <<"process_existing", "observer_start", "sleep">>

\* The step of start that the calling thread is at.
MainStep == StartSequence[main.step]

\* The observer dispatches one event at a time: it takes the next event when
\* the handler has returned from the previous one.
DispatcherFree == calls = {}

\* A plausible slip: the path is removed at the end of the try block, so
\* only when process_paper returned.
RemovesPathOnSuccess(raised) == ~raised

\* processing.remove(file_path) stands in the finally clause: it runs
\* whether process_paper returned or raised.
RemovesPath(raised) == TRUE

InitWatch ==
    /\ pc = "ready"
    /\ directory \in Inboxes
    /\ main = [step |-> 1, at |-> "call", i |-> 0]
    /\ existing_pdfs = <<>>
    /\ observer = "stopped"
    /\ event_queue = <<>>
    /\ event_count = 0
    /\ calls = {}
    /\ processing = {}
    /\ processed = {}
    /\ full_text = <<>>
    /\ page_count = 0
    /\ IdlePage /\ IdleSections /\ IdleEquations /\ IdleFigures
    /\ IdleCitations /\ IdleProcess
    /\ pdf_files = <<>> /\ results = EmptyDict /\ batch_done = 0
    /\ IdlePaper

\* existing_pdfs = list(self.inbox_path.glob("*.pdf"))
ListExisting ==
    /\ MainStep = "process_existing" /\ main.at = "call"
    /\ existing_pdfs' \in Listings({n \in DOMAIN directory : GlobMatches(n)})
    /\ main' = [main EXCEPT !.at = "listed"]
    /\ UNCHANGED <<pc, directory, observer, event_queue, event_count, calls, processing,
                   processed>>

\* The calling thread enters process_paper for the next existing PDF.
BeginExisting ==
    /\ MainStep = "process_existing" /\ main.at = "listed"
    /\ main.i < Len(existing_pdfs)
    /\ main' = [main EXCEPT !.at = "paper", !.i = main.i + 1]
    /\ processed' = processed \cup {existing_pdfs[main.i + 1]}
    /\ UNCHANGED <<pc, directory, existing_pdfs, observer, event_queue, event_count,
                   calls, processing>>

\* process_paper returns or raises; the exception is caught and printed.
EndExisting ==
    /\ MainStep = "process_existing" /\ main.at = "paper"
    /\ main' = [main EXCEPT !.at = "listed"]
    /\ UNCHANGED <<pc, directory, existing_pdfs, observer, event_queue, event_count,
                   calls, processing, processed>>

\* _process_existing_pdfs returns.
ExistingDone ==
    /\ MainStep = "process_existing" /\ main.at = "listed"
    /\ main.i = Len(existing_pdfs)
    /\ main' = [main EXCEPT !.step = main.step + 1, !.at = "call"]
    /\ UNCHANGED <<pc, directory, existing_pdfs, observer, event_queue, event_count,
                   calls, processing, processed>>

\* self.observer.start()
StartObserver ==
    /\ MainStep = "observer_start" /\ main.at = "call"
    /\ observer' = "started"
    /\ main' = [main EXCEPT !.step = main.step + 1]
    /\ UNCHANGED <<pc, directory, existing_pdfs, event_queue, event_count, calls,
                   processing, processed>>

\* Something is created in the inbox; a started observer queues the event.
Create ==
    /\ event_count < MaxEvents
    /\ \E c \in Creations :
           /\ directory' = DictPut(directory, c.name, c.paper)
           /\ event_queue' =
                  IF observer = "started"
                  THEN Append(event_queue,
                              [src_path |-> c.name, is_directory |-> c.is_directory,
                               id |-> event_count + 1])
                  ELSE event_queue
    /\ event_count' = event_count + 1
    /\ UNCHANGED <<pc, main, existing_pdfs, observer, calls, processing, processed>>

\* The observer calls on_created for the next event: the call returns at
\* once for a directory, for another suffix and for a path in `processing`,
\* and else goes to sleep for a second.
Dispatch ==
    /\ observer = "started"
    /\ event_queue # <<>>
    /\ DispatcherFree
    /\ \E e \in {Head(event_queue)} :
           calls' = IF IsPdfEvent(e) /\ e.src_path \notin processing
                    THEN calls \cup {[id |-> e.id, path |-> e.src_path, at |-> "sleep"]}
                    ELSE calls
    /\ event_queue' = Tail(event_queue)
    /\ UNCHANGED <<pc, directory, main, existing_pdfs, observer, event_count, processing,
                   processed>>

\* After the sleep: self.processing.add(file_path), and process_paper is
\* entered.
AddAndBegin ==
    \E c \in calls :
        /\ c.at = "sleep"
        /\ processing' = processing \cup {c.path}
        /\ processed' = processed \cup {c.path}
        /\ calls' = (calls \ {c}) \cup {[c EXCEPT !.at = "paper"]}
        /\ UNCHANGED <<pc, directory, main, existing_pdfs, observer, event_queue,
                       event_count>>

\* process_paper returns or raises, the exception is caught and printed, and
\* the finally clause removes the path; set.remove raises KeyError for a
\* path that is not in the set, and that exception leaves on_created.
FinishCall ==
    \E c \in calls :
        /\ c.at = "paper"
        /\ IF RemovesPath(PaperRaises(directory[c.path]))
           THEN IF c.path \in processing
                THEN processing' = processing \ {c.path} /\ pc' = pc
                ELSE processing' = processing /\ pc' = "raised"
           ELSE processing' = processing /\ pc' = pc
        /\ calls' = calls \ {c}
        /\ UNCHANGED <<directory, main, existing_pdfs, observer, event_queue, event_count,
                       processed>>

\* What the watcher leaves alone.
WatchFrame ==
    UNCHANGED <<full_text, page_count, pageVars, secVars, eqVars, figVars,
                citVars, procVars, pdf_files, results, batch_done, paperVars>>

\* The thread that called start.
MainThread ==
    /\ ListExisting \/ BeginExisting \/ EndExisting \/ ExistingDone \/ StartObserver
    /\ WatchFrame

\* The observer's thread.
ObserverThread ==
    /\ Dispatch \/ AddAndBegin \/ FinishCall
    /\ WatchFrame

\* Whoever puts files into the inbox.
Environment == Create /\ WatchFrame

NextWatch == MainThread \/ ObserverThread \/ Environment

SpecWatch == InitWatch /\ [][NextWatch]_vars

\* Both threads keep running: a step that stays possible is taken.
SpecWatchLive == SpecWatch /\ WF_vars(MainThread) /\ WF_vars(ObserverThread)

\* The process_paper calls in progress: the thread and what it processes.
InProgress ==
    (IF main.at = "paper"
     THEN {[thread |-> "main", id |-> 0, path |-> existing_pdfs[main.i]]}
     ELSE {})
    \cup {[thread |-> "observer", id |-> c.id, path |-> c.path] :
          c \in {x \in calls : x.at = "paper"}}

\* C20: whatever the interleaving of the creation events, repeated ones for
\* one path included, at most one process_paper call is in progress at any
\* moment, and no two on_created invocations that overlap are for the same
\* path.
C20_OneAtATime ==
    /\ Cardinality(InProgress) <= 1
    /\ \A c1, c2 \in calls : c1 # c2 => c1.path # c2.path

\* C20 witness: the existing PDFs have been processed, and while on_created
\* is inside process_paper for a path, a second creation event for the same
\* path is waiting in the queue.
C20_Witness ==
    /\ main.step = 3
    /\ existing_pdfs # <<>>
    /\ \E c \in calls :
           /\ c.at = "paper"
           /\ \E k \in DOMAIN event_queue : event_queue[k].src_path = c.path

\* The names of the inbox that are PDF files: the suffix is .pdf in any case,
\* the test on_created applies.
PdfNames == {n \in WatchNames : LowerOf(SuffixOf(n)) = PdfPattern}

\* C27: once start has been called, every PDF file that is in the inbox, or
\* is put there later, is eventually passed to process_paper, the files that
\* arrive while the existing PDFs are processed included.
C27_EveryPdfProcessed ==
    \A n \in PdfNames : [](n \in DOMAIN directory => <>(n \in processed))

\* The paths that on_created is inside process_paper for.
PathsInProgress == {c.path : c \in {x \in calls : x.at = "paper"}}

\* C28: whatever on_created calls have been made, `processing` holds exactly
\* the paths that on_created is processing; the removal of a path never
\* fails and no exception leaves on_created, whether process_paper returned
\* or raised; and `processing` is empty when no call is in progress.
C28_ProcessingTracksCalls ==
    /\ processing = PathsInProgress
    /\ pc # "raised"
    /\ calls = {} => processing = {}

\* C28 witness: the observer runs, on_created has passed a created file to
\* process_paper, process_paper raised on it, and the call has returned.
C28_Witness ==
    /\ main.step = 3
    /\ calls = {}
    /\ event_queue = <<>>
    /\ processing = {}
    /\ \E p \in processed :
           /\ \A k \in DOMAIN existing_pdfs : existing_pdfs[k] # p
           /\ PaperRaises(directory[p])

====
